---- MODULE Spec2Model ----
(***************************************************************************)
(* Model of the client-side collaborative text editor (static/editor.js,   *)
(* class Editor) and of the event sources that drive it (static/text.js    *)
(* and the socket server).  One Editor is a record; every handler and      *)
(* public method of the class is an operator from Editor records to Editor *)
(* records, and the actions below apply them to the peers of a session.    *)
(***************************************************************************)
EXTENDS Integers, Sequences, FiniteSets, TLC

\* ------------------------------------------------------------------ bounds

\* Longest text a local or remote insertion may grow a replica to.
MaxLen == 3
\* Number of public-method calls (add/remove/move_cursor/toggle_property) of one peer.
MaxLocal == 2
\* Number of events of other users the server delivers to a peer.
MaxRemote == 2
\* Number of public-method calls of each peer of a session of two peers.
MaxPeerCalls == 1
\* Number of add/remove calls of a round trip without remote events.
MaxRoundTrip == 3

\* ------------------------------------------------------------------ values

\* JavaScript's undefined, as the value of #userid before 'connected'.
undefined == 0
\* JavaScript's null/undefined as the flag of a flagless property.
null == "null"
\* The key under which the range list of a flagless property ({flags: false,
\* ranges: [...]}) is kept; a flagged property ({flags: true, ranges: Map})
\* keeps one list per flag.
Flagless == "-"

Min(a, b) == IF a < b THEN a ELSE b
Max(a, b) == IF a > b THEN a ELSE b

\* String.prototype.substring(a, b): both indices are clamped to [0, length]
\* and swapped when a > b.
substring(s, a, b) ==
  LET n  == Len(s)
      a1 == Max(0, Min(a, n))
      b1 == Max(0, Min(b, n))
  IN  SubSeq(s, Min(a1, b1) + 1, Max(a1, b1))

\* Array.prototype.filter on a sequence of ranges.
RECURSIVE FilterNonEmpty(_)
FilterNonEmpty(ranges) ==
  IF ranges = <<>> THEN <<>>
  ELSE IF Head(ranges)[1] >= Head(ranges)[2]
       THEN FilterNonEmpty(Tail(ranges))
       ELSE <<Head(ranges)>> \o FilterNonEmpty(Tail(ranges))

\* A property table without the entry of one property (Map.delete).
DeleteKey(f, k) == [x \in (DOMAIN f) \ {k} |-> f[x]]
\* A property table with the entry of one property set (Map.set).
SetKey(f, k, v) == [x \in (DOMAIN f) \cup {k} |-> IF x = k THEN v ELSE f[x]]

\* ------------------------------------------------------------------ Editor

\* The state of a freshly constructed Editor.
NewEditor(read_only) ==
  [ userid            |-> undefined,
    read_only         |-> read_only,
    content           |-> <<>>,
    server_content    |-> <<>>,
    cursors           |-> <<>>,
    server_cursors    |-> <<>>,
    properties        |-> <<>>,
    server_properties |-> <<>>,
    builtup_inputs    |-> <<>>,
    last_mod_id       |-> 0,
    last_mod_id_dirty |-> FALSE,
    emitted           |-> <<>> ]

\* The shift of a fixed point by a removal of [start, end).
RemoveShift(pos, start, end) ==
  IF pos > start THEN pos - (Min(end, pos) - start) ELSE pos

\* The shift of a fixed point by an insertion of len code units at position.
AddShift(pos, position, len) ==
  IF pos > position THEN pos + len ELSE pos

\* The arrow function handed to #shift_all_fixed_points, as the record of the
\* values it closes over, applied to a fixed point.
ApplyShift(shift, pos) ==
  IF shift.type = "remove" THEN RemoveShift(pos, shift.start, shift.end)
  ELSE AddShift(pos, shift.position, shift.len)

\* #shift_all_fixed_points on the cursor table.
ShiftCursors(cs, shift) ==
  [u \in DOMAIN cs |->
     [cs[u] EXCEPT !.position = ApplyShift(shift, cs[u].position)]]

\* #shift_all_fixed_points on the property table.
ShiftProperties(ps, shift) ==
  [p \in DOMAIN ps |->
     [ps[p] EXCEPT !.ranges =
        [k \in DOMAIN ps[p].ranges |->
           [i \in 1..Len(ps[p].ranges[k]) |->
              <<ApplyShift(shift, ps[p].ranges[k][i][1]),
                ApplyShift(shift, ps[p].ranges[k][i][2])>>]]]]

\* remove_empty_property_ranges that drops the ranges with start >= end and
\* keeps the emptied buckets and properties.
remove_empty_ranges_only(ps) ==
  [p \in DOMAIN ps |->
     [ps[p] EXCEPT !.ranges =
        [k \in DOMAIN ps[p].ranges |-> FilterNonEmpty(ps[p].ranges[k])]]]

\* #remove_empty_property_ranges: drops the ranges with start >= end, then the
\* emptied flag buckets, then the emptied properties.
remove_empty_property_ranges(ps) ==
  LET cut(p)  == [k \in DOMAIN ps[p].ranges |-> FilterNonEmpty(ps[p].ranges[k])]
      keep(p) == {k \in DOMAIN ps[p].ranges : cut(p)[k] # <<>>}
  IN  [p \in {q \in DOMAIN ps : keep(q) # {}} |->
         [ps[p] EXCEPT !.ranges = [k \in keep(p) |-> cut(p)[k]]]]


\* The property or cursor table a primitive works on: the shadow (server_side)
\* or the live one.
Props(e, server_side) == IF server_side THEN e.server_properties ELSE e.properties

WithProps(e, server_side, ps) ==
  IF server_side THEN [e EXCEPT !.server_properties = ps]
  ELSE [e EXCEPT !.properties = ps]

\* #shift_all_fixed_points(shift, server_side).
shift_all_fixed_points(e, shift, server_side) ==
  IF server_side
  THEN [e EXCEPT !.server_cursors = ShiftCursors(@, shift),
                 !.server_properties = ShiftProperties(@, shift)]
  ELSE [e EXCEPT !.cursors = ShiftCursors(@, shift),
                 !.properties = ShiftProperties(@, shift)]

\* TextRemove that resumes one code unit after end.
TextRemoveOffByOne(s, start, end) ==
  substring(s, 0, start) \o substring(s, end + 1, Len(s))

\* The text of #actual_remove: content.substring(0, start) + content.substring(end).
TextRemove(s, start, end) == substring(s, 0, start) \o substring(s, end, Len(s))

\* The text of #actual_add:
\* content.substring(0, position) + text + content.substring(position).
TextAdd(s, text, position) ==
  substring(s, 0, position) \o text \o substring(s, position, Len(s))

\* #actual_remove(start, end, server_side).
actual_remove(e, start, end, server_side) ==
  LET shift == [type |-> "remove", start |-> start, end |-> end]
      e1 == shift_all_fixed_points(e, shift, server_side)
      e2 == WithProps(e1, server_side,
                      remove_empty_property_ranges(Props(e1, server_side)))
  IN  IF server_side
      THEN [e2 EXCEPT !.server_content = TextRemove(@, start, end)]
      ELSE [e2 EXCEPT !.content = TextRemove(@, start, end)]

\* #actual_add(text, position, server_side).
actual_add(e, text, position, server_side) ==
  LET shift == [type |-> "add", position |-> position, len |-> Len(text)]
      e1 == shift_all_fixed_points(e, shift, server_side)
  IN  IF server_side
      THEN [e1 EXCEPT !.server_content = TextAdd(@, text, position)]
      ELSE [e1 EXCEPT !.content = TextAdd(@, text, position)]

\* cutOverlaps of #actual_remove_property: what is left of each range outside
\* [start, end).
RECURSIVE cutOverlaps(_, _, _)
cutOverlaps(ranges, start, end) ==
  IF ranges = <<>> THEN <<>>
  ELSE LET range == Head(ranges)
           kept  == IF range[1] >= start
                    THEN IF range[2] > end
                         THEN << <<Max(end, range[1]), range[2]>> >>
                         ELSE <<>>
                    ELSE IF range[2] > end
                         THEN << <<range[1], start>>, <<end, range[2]>> >>
                         ELSE << <<range[1], Min(start, range[2])>> >>
       IN  kept \o cutOverlaps(Tail(ranges), start, end)

\* RemoveProperty that drops the whole entry of the property.
RemovePropertyWhole(ps, start, end, property) ==
  IF property \notin DOMAIN ps THEN ps ELSE DeleteKey(ps, property)

\* #actual_remove_property on one table: every flag bucket of the property is
\* cut; emptied buckets, and the property once it has none left, are deleted.
RemoveProperty(ps, start, end, property) ==
  IF property \notin DOMAIN ps THEN ps
  ELSE LET prop == ps[property]
           cut  == [k \in DOMAIN prop.ranges |-> cutOverlaps(prop.ranges[k], start, end)]
           keep == {k \in DOMAIN prop.ranges : cut[k] # <<>>}
       IN  IF keep = {} THEN DeleteKey(ps, property)
           ELSE [ps EXCEPT ![property].ranges = [k \in keep |-> cut[k]]]

\* #actual_remove_property(start, end, property, server_side).
actual_remove_property(e, start, end, property, server_side) ==
  WithProps(e, server_side, RemoveProperty(Props(e, server_side), start, end, property))

\* The forEach of #actual_add_property over the ranges of the bucket: a range
\* that ends at start is extended to end; a range that starts at end gets its
\* end set to start.
MergeRange(range, start, end) ==
  IF range[2] = start THEN <<range[1], end>>
  ELSE IF range[1] = end THEN <<range[1], start>>
  ELSE range

WasAdded(ranges, start, end) ==
  \E i \in 1..Len(ranges) : ranges[i][2] = start \/ ranges[i][1] = end

\* AddProperty without the call of #actual_remove_property that clears
\* [start, end) first.
AddPropertyNoCut(ps, start, end, property, flag) ==
  IF property \in DOMAIN ps
  THEN LET key    == IF ps[property].flags THEN flag ELSE Flagless
           ranges == IF key \in DOMAIN ps[property].ranges
                     THEN ps[property].ranges[key] ELSE <<>>
           merged == [i \in 1..Len(ranges) |-> MergeRange(ranges[i], start, end)]
           new    == IF WasAdded(ranges, start, end) THEN merged
                     ELSE Append(merged, <<start, end>>)
       IN  [ps EXCEPT ![property].ranges = SetKey(@, key, new)]
  ELSE IF flag # null
       THEN SetKey(ps, property, [flags |-> TRUE, ranges |-> (flag :> << <<start, end>> >>)])
       ELSE SetKey(ps, property, [flags |-> FALSE, ranges |-> (Flagless :> << <<start, end>> >>)])

\* AddProperty that picks the bucket by the flag of the call instead of the
\* shape of the entry.
AddPropertyByFlag(ps, start, end, property, flag) ==
  LET key == IF flag # null THEN flag ELSE Flagless
  IN  IF property \in DOMAIN ps
      THEN LET ps1 == RemoveProperty(ps, start, end, property)
           IN  IF property \notin DOMAIN ps1 THEN ps1
               ELSE LET ranges == IF key \in DOMAIN ps1[property].ranges
                                  THEN ps1[property].ranges[key] ELSE <<>>
                        merged == [i \in 1..Len(ranges) |-> MergeRange(ranges[i], start, end)]
                        new    == IF WasAdded(ranges, start, end) THEN merged
                                  ELSE Append(merged, <<start, end>>)
                    IN  [ps1 EXCEPT ![property].ranges = SetKey(@, key, new)]
      ELSE SetKey(ps, property, [flags |-> flag # null, ranges |-> (key :> << <<start, end>> >>)])

\* #actual_add_property on one table.  `prop` is read before the call of
\* #actual_remove_property; when that call deletes the property from the
\* table, the new range goes to the detached object and the table keeps no
\* entry for the property.
AddProperty(ps, start, end, property, flag) ==
  IF property \in DOMAIN ps
  THEN LET prop == ps[property]
           ps1  == RemoveProperty(ps, start, end, property)
           key  == IF prop.flags THEN flag ELSE Flagless
       IN  IF property \notin DOMAIN ps1 THEN ps1
           ELSE LET ranges == IF key \in DOMAIN ps1[property].ranges
                              THEN ps1[property].ranges[key] ELSE <<>>
                    merged == [i \in 1..Len(ranges) |-> MergeRange(ranges[i], start, end)]
                    new    == IF WasAdded(ranges, start, end) THEN merged
                              ELSE Append(merged, <<start, end>>)
                IN  [ps1 EXCEPT ![property].ranges = SetKey(@, key, new)]
  ELSE IF flag # null
       THEN SetKey(ps, property, [flags |-> TRUE, ranges |-> (flag :> << <<start, end>> >>)])
       ELSE SetKey(ps, property, [flags |-> FALSE, ranges |-> (Flagless :> << <<start, end>> >>)])

\* #actual_add_property(start, end, property, flag, server_side).
actual_add_property(e, start, end, property, flag, server_side) ==
  WithProps(e, server_side, AddProperty(Props(e, server_side), start, end, property, flag))

\* #set_last_mod_id(last_mod_id).
set_last_mod_id(e, last_mod_id) ==
  [e EXCEPT !.last_mod_id = last_mod_id, !.last_mod_id_dirty = TRUE]

\* this.#socket.emit(...): the event joins the events in flight to the server.
Emit(e, event) == [e EXCEPT !.emitted = Append(@, event)]

\* A read of the head that leaves it in the queue.
ShiftNothing(queue) == queue

\* Array.prototype.shift on the queue (no effect on an empty queue).
Shift(queue) == IF queue = <<>> THEN <<>> ELSE Tail(queue)

\* ------------------------------------------------------------------ inbound events

\* Editor.#CURSOR_COLOURS.
CURSOR_COLOURS == <<"red", "orange", "brown", "green", "blue", "violet", "pink">>

\* Math.random() takes the values k / RandomScale, 0 <= k < RandomScale.
RandomScale == 2

\* on_connected without the assignment of #server_content.
on_connected_live_only(e, my_userid, content, last_mod_id) ==
  LET e1 == [e EXCEPT !.userid = my_userid, !.content = content,
                      !.last_mod_id = last_mod_id]
      cs == SetKey(e1.cursors, my_userid,
                   [position |-> 0, username |-> "Me", colour |-> "black"])
  IN  IF ~e1.read_only
      THEN [e1 EXCEPT !.cursors = cs, !.server_cursors = cs]
      ELSE e1

\* #on_connected(my_userid, content, last_mod_id).
on_connected(e, my_userid, content, last_mod_id) ==
  LET e1 == [e EXCEPT !.userid = my_userid, !.content = content,
                      !.server_content = content, !.last_mod_id = last_mod_id]
      cs == SetKey(e1.cursors, my_userid,
                   [position |-> 0, username |-> "Me", colour |-> "black"])
  IN  IF ~e1.read_only
      THEN [e1 EXCEPT !.cursors = cs, !.server_cursors = cs]
      ELSE e1

\* on_user_disconnected without the delete on #server_cursors.
on_user_disconnected_live_only(e, userid) ==
  [e EXCEPT !.cursors = DeleteKey(@, userid)]

\* #on_user_disconnected(userid).
on_user_disconnected(e, userid) ==
  [e EXCEPT !.server_cursors = DeleteKey(@, userid), !.cursors = DeleteKey(@, userid)]

\* on_ping without the test of #last_mod_id_dirty.
on_ping_unconditional(e) ==
  [Emit(e, [type |-> "update_last_mod_id", last_mod_id |-> e.last_mod_id])
     EXCEPT !.last_mod_id_dirty = FALSE]

\* #on_ping().
on_ping(e) ==
  IF e.last_mod_id_dirty
  THEN [Emit(e, [type |-> "update_last_mod_id", last_mod_id |-> e.last_mod_id])
          EXCEPT !.last_mod_id_dirty = FALSE]
  ELSE e

\* The loop of #on_cursor_moved that carries a remote position over the
\* pending inputs.
RECURSIVE RebaseCursor(_, _)
RebaseCursor(inputs, position) ==
  IF inputs = <<>> THEN position
  ELSE LET input == Head(inputs)
           p == CASE input.type = "remove" ->
                       IF position > input.start
                       THEN position - (Min(input.end, position) - input.start)
                       ELSE position
                  [] input.type = "add" ->
                       IF position > input.position
                       THEN position + Len(input.text)
                       ELSE position
                  [] OTHER -> position
       IN  RebaseCursor(Tail(inputs), p)

\* The colours of CURSOR_COLOURS no cursor of the live table uses.
RECURSIVE RemainingColours(_, _)
RemainingColours(colours, cs) ==
  IF colours = <<>> THEN <<>>
  ELSE IF \E u \in DOMAIN cs : cs[u].colour = Head(colours)
       THEN RemainingColours(Tail(colours), cs)
       ELSE <<Head(colours)>> \o RemainingColours(Tail(colours), cs)

\* remaining_colours[Math.floor(Math.random() * remaining_colours.length)],
\* with Math.random() = random / RandomScale; undefined when none remains.
PickColour(cs, random) ==
  LET remaining == RemainingColours(CURSOR_COLOURS, cs)
  IN  IF remaining = <<>> THEN "undefined"
      ELSE remaining[((random * Len(remaining)) \div RandomScale) + 1]

\* #on_cursor_moved(position, userid, username, mod_id).  For a remote user the
\* shadow entry is a clone of the live entry (the rebased position).  An echo with an
\* empty queue, or without a shadow cursor of the local user, throws a
\* TypeError after the queue was shifted.
on_cursor_moved(e, position, userid, username, mod_id, random) ==
  LET e1 == set_last_mod_id(e, mod_id)
  IN  IF userid = e1.userid
      THEN LET e2 == [e1 EXCEPT !.builtup_inputs = Shift(@)]
           IN  IF e1.builtup_inputs = <<>> \/ userid \notin DOMAIN e2.server_cursors
               THEN e2
               ELSE [e2 EXCEPT !.server_cursors[userid].position = position]
      ELSE LET p    == RebaseCursor(e1.builtup_inputs, position)
               live == IF userid \in DOMAIN e1.cursors
                       THEN [e1.cursors[userid] EXCEPT !.position = p]
                       ELSE [position |-> p, username |-> username,
                             colour |-> PickColour(e1.cursors, random)]
           IN  [e1 EXCEPT !.cursors = SetKey(@, userid, live),
                          !.server_cursors = SetKey(@, userid, live)]

\* ResetLive without the copy of the text.
ResetLiveKeepsContent(e) ==
  [e EXCEPT !.cursors = e.server_cursors, !.properties = e.server_properties]

\* this.#content = this.#server_content; this.#cursors = structuredClone(...);
\* this.#properties = structuredClone(...).
ResetLive(e) ==
  [e EXCEPT !.content = e.server_content, !.cursors = e.server_cursors,
            !.properties = e.server_properties]

\* One pending input with its coordinates rebased by a remote removal of
\* [start, end) (the switch of #on_remove_region).
RebaseOnRemove(input, start, end) ==
  LET tr(x) == IF start < x THEN x - (Min(x, end) - start) ELSE x
  IN  CASE input.type \in {"remove", "remove_property", "add_property"} ->
             [input EXCEPT !.start = tr(@), !.end = tr(@)]
        [] input.type \in {"add", "cursor"} ->
             [input EXCEPT !.position = tr(@)]

\* RebaseOnAdd that also moves an insertion or cursor input at the position of
\* the remote insertion.
RebaseOnAddInclusive(input, position, len) ==
  CASE input.type \in {"remove", "remove_property", "add_property"} ->
         [input EXCEPT !.start = IF position < @ THEN @ + len ELSE @,
                       !.end   = IF position <= @ THEN @ + len ELSE @]
    [] input.type \in {"add", "cursor"} ->
         [input EXCEPT !.position = IF position <= @ THEN @ + len ELSE @]

\* RebaseOnAdd that leaves the end of a range that ends at the position of
\* the remote insertion.
RebaseOnAddEndExclusive(input, position, len) ==
  CASE input.type \in {"remove", "remove_property", "add_property"} ->
         [input EXCEPT !.start = IF position < @ THEN @ + len ELSE @,
                       !.end   = IF position < @ THEN @ + len ELSE @]
    [] input.type \in {"add", "cursor"} ->
         [input EXCEPT !.position = IF position < @ THEN @ + len ELSE @]

\* One pending input with its coordinates rebased by a remote insertion of
\* len code units at position (the switch of #on_add_region).
RebaseOnAdd(input, position, len) ==
  CASE input.type \in {"remove", "remove_property", "add_property"} ->
         [input EXCEPT !.start = IF position < @ THEN @ + len ELSE @,
                       !.end   = IF position <= @ THEN @ + len ELSE @]
    [] input.type \in {"add", "cursor"} ->
         [input EXCEPT !.position = IF position < @ THEN @ + len ELSE @]

\* The re-application of one (rebased) pending input to the live replica.  ok
\* is FALSE when the statement throws (no live cursor of the local user).
Reapply(e, input) ==
  CASE input.type = "remove" ->
         [ok |-> TRUE, e |-> actual_remove(e, input.start, input.end, FALSE)]
    [] input.type = "add" ->
         [ok |-> TRUE, e |-> actual_add(e, input.text, input.position, FALSE)]
    [] input.type = "remove_property" ->
         [ok |-> TRUE,
          e |-> actual_remove_property(e, input.start, input.end, input.property, FALSE)]
    [] input.type = "add_property" ->
         [ok |-> TRUE,
          e |-> actual_add_property(e, input.start, input.end, input.property,
                                    input.flag, FALSE)]
    [] input.type = "cursor" ->
         IF e.userid \in DOMAIN e.cursors
         THEN [ok |-> TRUE, e |-> [e EXCEPT !.cursors[e.userid].position = input.position]]
         ELSE [ok |-> FALSE, e |-> e]

\* The for loop of #on_remove_region / #on_add_region from input i on: each
\* input is rebased in place and re-applied; a throw ends the handler.
RECURSIVE Replay(_, _, _)
Replay(e, i, remote) ==
  IF i > Len(e.builtup_inputs) THEN e
  ELSE LET input == IF remote.type = "remove"
                    THEN RebaseOnRemove(e.builtup_inputs[i], remote.start, remote.end)
                    ELSE RebaseOnAdd(e.builtup_inputs[i], remote.position, Len(remote.text))
           e1    == [e EXCEPT !.builtup_inputs[i] = input]
           r     == Reapply(e1, input)
       IN  IF r.ok THEN Replay(r.e, i + 1, remote) ELSE r.e

\* #on_remove_region(start, end, userid, mod_id).
on_remove_region(e, start, end, userid, mod_id) ==
  LET e1 == actual_remove(set_last_mod_id(e, mod_id), start, end, TRUE)
  IN  IF userid = e1.userid
      THEN [e1 EXCEPT !.builtup_inputs = Shift(@)]
      ELSE Replay(ResetLive(e1), 1, [type |-> "remove", start |-> start, end |-> end])

\* on_add_region that resets and replays the live replica for the echo of an
\* own insertion too.
on_add_region_replays_echo(e, text, position, userid, mod_id) ==
  LET e1 == actual_add(set_last_mod_id(e, mod_id), text, position, TRUE)
      e2 == IF userid = e1.userid THEN [e1 EXCEPT !.builtup_inputs = Shift(@)] ELSE e1
  IN  Replay(ResetLive(e2), 1, [type |-> "add", text |-> text, position |-> position])

\* #on_add_region(text, position, userid, mod_id).
on_add_region(e, text, position, userid, mod_id) ==
  LET e1 == actual_add(set_last_mod_id(e, mod_id), text, position, TRUE)
  IN  IF userid = e1.userid
      THEN [e1 EXCEPT !.builtup_inputs = Shift(@)]
      ELSE Replay(ResetLive(e1), 1, [type |-> "add", text |-> text, position |-> position])

\* The for loop of #on_remove_property / #on_add_property: only the pending
\* property inputs are re-applied (the start and end the loop adjusts for
\* pending text inputs are not read afterwards).
RECURSIVE ReplayProperties(_, _)
ReplayProperties(e, i) ==
  IF i > Len(e.builtup_inputs) THEN e
  ELSE LET input == e.builtup_inputs[i]
       IN  IF input.type \in {"remove_property", "add_property"}
           THEN ReplayProperties(Reapply(e, input).e, i + 1)
           ELSE ReplayProperties(e, i + 1)

\* on_add_property that replays over the live table as it is, without the
\* copy of the shadow table.
on_add_property_over_live(e, start, end, property, flag, userid, mod_id) ==
  LET e1 == actual_add_property(set_last_mod_id(e, mod_id), start, end, property, flag, TRUE)
  IN  IF userid = e1.userid
      THEN [e1 EXCEPT !.builtup_inputs = Shift(@)]
      ELSE ReplayProperties(e1, 1)

\* #on_remove_property(start, end, property, userid, mod_id).
on_remove_property(e, start, end, property, userid, mod_id) ==
  LET e1 == actual_remove_property(set_last_mod_id(e, mod_id), start, end, property, TRUE)
  IN  IF userid = e1.userid
      THEN [e1 EXCEPT !.builtup_inputs = Shift(@)]
      ELSE ReplayProperties([e1 EXCEPT !.properties = e1.server_properties], 1)

\* #on_add_property(start, end, property, flag, userid, mod_id).
on_add_property(e, start, end, property, flag, userid, mod_id) ==
  LET e1 == actual_add_property(set_last_mod_id(e, mod_id), start, end, property, flag, TRUE)
  IN  IF userid = e1.userid
      THEN [e1 EXCEPT !.builtup_inputs = Shift(@)]
      ELSE ReplayProperties([e1 EXCEPT !.properties = e1.server_properties], 1)

\* ------------------------------------------------------------------ public methods

Push(e, input) == [e EXCEPT !.builtup_inputs = Append(@, input)]

\* remove without the early return of a read-only editor.
removeUnguarded(e, start, end) ==
  LET e1 == Push(e, [type |-> "remove", start |-> start, end |-> end])
      e2 == Emit(e1, [type |-> "remove_region", start |-> start, end |-> end,
                      last_mod_id |-> e1.last_mod_id])
  IN  actual_remove([e2 EXCEPT !.last_mod_id_dirty = FALSE], start, end, FALSE)

\* remove(start, end).
remove(e, start, end) ==
  IF e.read_only THEN e
  ELSE LET e1 == Push(e, [type |-> "remove", start |-> start, end |-> end])
           e2 == Emit(e1, [type |-> "remove_region", start |-> start, end |-> end,
                           last_mod_id |-> e1.last_mod_id])
       IN  actual_remove([e2 EXCEPT !.last_mod_id_dirty = FALSE], start, end, FALSE)

\* move_cursor that moves and emits without queueing the 'cursor' input.
move_cursor_unqueued(e, position) ==
  IF e.read_only \/ e.userid \notin DOMAIN e.cursors THEN e
  ELSE [Emit([e EXCEPT !.cursors[e.userid].position = position],
             [type |-> "cursor_moved", position |-> position,
              last_mod_id |-> e.last_mod_id])
          EXCEPT !.last_mod_id_dirty = FALSE]

\* move_cursor(position).  Without a live cursor of the local user the
\* assignment throws after the input was queued and before the emit.
move_cursor(e, position) ==
  IF e.read_only THEN e
  ELSE LET e1 == Push(e, [type |-> "cursor", position |-> position])
       IN  IF e1.userid \notin DOMAIN e1.cursors THEN e1
           ELSE [Emit([e1 EXCEPT !.cursors[e1.userid].position = position],
                      [type |-> "cursor_moved", position |-> position,
                       last_mod_id |-> e1.last_mod_id])
                   EXCEPT !.last_mod_id_dirty = FALSE]

\* add(text, position).  The getter `position` throws without a live cursor
\* of the local user, after the text was inserted.
add(e, text, position) ==
  IF e.read_only THEN e
  ELSE LET e1 == Push(e, [type |-> "add", position |-> position, text |-> text])
           e2 == Emit(e1, [type |-> "add_region", text |-> text, position |-> position,
                           last_mod_id |-> e1.last_mod_id])
           e3 == actual_add([e2 EXCEPT !.last_mod_id_dirty = FALSE], text, position, FALSE)
       IN  IF e3.userid \notin DOMAIN e3.cursors THEN e3
           ELSE IF e3.cursors[e3.userid].position = position
                THEN move_cursor(e3, position + Len(text))
                ELSE e3

\* The choice of toggle_property between 'remove' and 'add'.
ToggleAction(ps, start, end, property, flag) ==
  IF property \in DOMAIN ps
  THEN LET prop   == ps[property]
           key    == IF prop.flags THEN flag ELSE Flagless
           ranges == IF key \in DOMAIN prop.ranges THEN prop.ranges[key] ELSE <<>>
           overlapping_ranges ==
             {i \in 1..Len(ranges) :
                IF start <= ranges[i][1] THEN ranges[i][1] <= end
                ELSE ranges[i][2] >= start}
       IN  IF Cardinality(overlapping_ranges) = 1
              /\ \A i \in overlapping_ranges : ranges[i][1] <= start /\ ranges[i][2] >= end
           THEN "remove" ELSE "add"
  ELSE "add"

\* toggle_property(start, end, property, flag).
toggle_property(e, start, end, property, flag) ==
  IF e.read_only THEN e
  ELSE LET action == ToggleAction(e.properties, start, end, property, flag)
           e1 == IF action = "add"
                 THEN actual_add_property(
                        Emit(Push(e, [type |-> "add_property", start |-> start, end |-> end,
                                      property |-> property, flag |-> flag]),
                             [type |-> "add_property", start |-> start, end |-> end,
                              property |-> property, flag |-> flag,
                              last_mod_id |-> e.last_mod_id]),
                        start, end, property, flag, FALSE)
                 ELSE actual_remove_property(
                        Emit(Push(e, [type |-> "remove_property", start |-> start,
                                      end |-> end, property |-> property]),
                             [type |-> "remove_property", start |-> start, end |-> end,
                              property |-> property, last_mod_id |-> e.last_mod_id]),
                        start, end, property, FALSE)
       IN  [e1 EXCEPT !.last_mod_id_dirty = FALSE]

\* is_initialized().
is_initialized(e) == e.userid # undefined

\* ------------------------------------------------------------------ rendering

\* The tags of the markup, in the order #render writes them.
OpenTag(name) == [tag |-> "open", name |-> name]
CloseTag(name) == [tag |-> "close", name |-> name]

\* The first while loop of addProperty's closing branch: active_properties is
\* popped down to and including the topmost entry of prop (or emptied); each
\* entry above it is closed and remembered.
RECURSIVE PopUntil(_, _, _, _)
PopUntil(active, prop, popped, html) ==
  IF active = <<>> THEN [active |-> active, popped |-> popped, html |-> html]
  ELSE LET top  == active[Len(active)]
           rest == SubSeq(active, 1, Len(active) - 1)
       IN  IF top[1] = prop THEN [active |-> rest, popped |-> popped, html |-> html]
           ELSE PopUntil(rest, prop, Append(popped, top), Append(html, CloseTag(top[1])))

\* The second while loop: the remembered entries are opened again, last
\* popped first.
RECURSIVE Reopen(_, _, _)
Reopen(active, popped, html) ==
  IF popped = <<>> THEN [active |-> active, html |-> html]
  ELSE LET top == popped[Len(popped)]
       IN  Reopen(Append(active, top), SubSeq(popped, 1, Len(popped) - 1),
                  Append(html, OpenTag(top[1])))

\* addProperty([start, stop], flag) of #render at position i.
addProperty(st, prop, range, flag, i) ==
  IF range[1] = i
  THEN [active |-> Append(st.active, <<prop, flag>>), html |-> Append(st.html, OpenTag(prop))]
  ELSE IF range[2] = i
       THEN LET down == PopUntil(st.active, prop, <<>>, st.html)
            IN  Reopen(down.active, down.popped, Append(down.html, CloseTag(prop)))
       ELSE st

\* ranges.forEach(range => addProperty(range, flag)) from range j on.
RECURSIVE RenderRanges(_, _, _, _, _, _)
RenderRanges(st, prop, ranges, flag, i, j) ==
  IF j > Len(ranges) THEN st
  ELSE RenderRanges(addProperty(st, prop, ranges[j], flag, i), prop, ranges, flag, i, j + 1)

\* range.ranges.forEach over the flag buckets of one property, in the order
\* keys, from bucket j on.
RECURSIVE RenderBuckets(_, _, _, _, _, _)
RenderBuckets(st, ps, prop, keys, i, j) ==
  IF j > Len(keys) THEN st
  ELSE RenderBuckets(RenderRanges(st, prop, ps[prop].ranges[keys[j]], keys[j], i, 1),
                     ps, prop, keys, i, j + 1)

\* properties.forEach at position i, in the order names, from property j on.
RECURSIVE RenderProperties(_, _, _, _, _)
RenderProperties(st, ps, order, i, j) ==
  IF j > Len(order.names) THEN st
  ELSE RenderProperties(
         RenderBuckets(st, ps, order.names[j], order.keys[order.names[j]], i, 1),
         ps, order, i, j + 1)

\* The for loop of #render from position i on.  The cursor spans and the
\* characters are no tags and are left out.
RECURSIVE RenderFrom(_, _, _, _, _)
RenderFrom(st, ps, order, n, i) ==
  IF i > n THEN st
  ELSE RenderFrom(RenderProperties(st, ps, order, i, 1), ps, order, n, i + 1)

\* The tags #render writes for a text of n code units and the property table
\* ps, whose Maps are iterated in the given order.
render(ps, order, n) ==
  RenderFrom([active |-> <<>>, html |-> <<>>], ps, order, n, 0).html

\* The sequences that hold every element of the set once.
Orderings(S) ==
  {f \in [1..Cardinality(S) -> S] : \A i, j \in 1..Cardinality(S) : f[i] = f[j] => i = j}

\* The iteration orders the Maps of a property table can have: a Map iterates
\* in the order its keys were inserted.
MapOrders(ps) ==
  {[names |-> names, keys |-> keys] :
     names \in Orderings(DOMAIN ps),
     keys \in {f \in [DOMAIN ps -> UNION {Orderings(DOMAIN ps[p].ranges) : p \in DOMAIN ps}] :
                 \A p \in DOMAIN ps : f[p] \in Orderings(DOMAIN ps[p].ranges)}}

\* ------------------------------------------------------------------ geometry helpers

\* 0 <= n / d <= 1 for integers n and d # 0, as the float division decides it.
UnitFraction(n, d) == IF d > 0 THEN 0 <= n /\ n <= d ELSE d <= n /\ n <= 0

\* linesIntersect with ua < 1 in place of ua <= 1.
linesIntersectHalfOpen(a1, a2, b1, b2) ==
  LET denom == (b2[2] - b1[2]) * (a2[1] - a1[1]) - (b2[1] - b1[1]) * (a2[2] - a1[2])
      ua    == (b2[1] - b1[1]) * (a1[2] - b1[2]) - (b2[2] - b1[2]) * (a1[1] - b1[1])
      ub    == (a2[1] - a1[1]) * (a1[2] - b1[2]) - (a2[2] - a1[2]) * (a1[1] - b1[1])
  IN  IF denom = 0 THEN FALSE
      ELSE UnitFraction(ua, denom) /\ ua # denom /\ UnitFraction(ub, denom)

\* linesIntersect(a1, a2, b1, b2) on points <<x, y>>.
linesIntersect(a1, a2, b1, b2) ==
  LET denom == (b2[2] - b1[2]) * (a2[1] - a1[1]) - (b2[1] - b1[1]) * (a2[2] - a1[2])
      ua    == (b2[1] - b1[1]) * (a1[2] - b1[2]) - (b2[2] - b1[2]) * (a1[1] - b1[1])
      ub    == (a2[1] - a1[1]) * (a1[2] - b1[2]) - (a2[2] - a1[2]) * (a1[1] - b1[1])
  IN  IF denom = 0 THEN FALSE
      ELSE UnitFraction(ua, denom) /\ UnitFraction(ub, denom)

\* No helper was called yet.
NoProbe == [called |-> FALSE]

\* ------------------------------------------------------------------ whiteboard primitives

\* An element of the drawing area: a path with its d attribute, or a g with
\* its child elements.  d stands for the translation of the path's vertices.
Path(id, d) == [tag |-> "path", id |-> id, d |-> d, children |-> <<>>]
Group(id, children) == [tag |-> "g", id |-> id, d |-> 0, children |-> children]

\* The paths the drawing area holds when the page is loaded.
Loaded == <<Path(<<0, 0>>, 0), Path(<<0, 1>>, 0), Path(<<0, 2>>, 0)>>

\* new Whiteboard(false): the drawing area, #last_id, and whether the last
\* handler or tool action threw.
NewWhiteboard == [area |-> Loaded, last_id |-> 0, threw |-> FALSE]

\* Some element of the forest, at any depth, has the id.
RECURSIVE Has(_, _)
Has(forest, id) ==
  \E i \in 1..Len(forest) : forest[i].id = id \/ Has(forest[i].children, id)

\* The top-level element that is, or holds, the first element with the id in
\* document order.
FirstTop(forest, id) ==
  CHOOSE i \in 1..Len(forest) :
    /\ forest[i].id = id \/ Has(forest[i].children, id)
    /\ \A j \in 1..(i - 1) : ~(forest[j].id = id \/ Has(forest[j].children, id))

\* document.getElementById(id), for an id some element has.
RECURSIVE getElementById(_, _)
getElementById(forest, id) ==
  LET i == FirstTop(forest, id)
  IN  IF forest[i].id = id THEN forest[i] ELSE getElementById(forest[i].children, id)

\* The element getElementById finds is a child of the drawing area itself.
IsTopLevel(forest, id) == forest[FirstTop(forest, id)].id = id

\* The sequence without its i-th entry.
Without(seq, i) == SubSeq(seq, 1, i - 1) \o SubSeq(seq, i + 1, Len(seq))

\* The forest with the element getElementById finds replaced by the elements
\* of `by` (none: the element is removed).
RECURSIVE Replace(_, _, _)
Replace(forest, id, by) ==
  LET i == FirstTop(forest, id)
  IN  IF forest[i].id = id
      THEN SubSeq(forest, 1, i - 1) \o by \o SubSeq(forest, i + 1, Len(forest))
      ELSE [forest EXCEPT ![i].children = Replace(@, id, by)]

\* on_draw that appends without looking for the id.
on_draw_unguarded(w, id, path) ==
  [w EXCEPT !.area = Append(@, Path(id, path)), !.threw = FALSE]

\* #on_draw(id, path).
on_draw(w, id, path) ==
  IF Has(w.area, id) THEN [w EXCEPT !.threw = FALSE]
  ELSE [w EXCEPT !.area = Append(@, Path(id, path)), !.threw = FALSE]

\* on_remove without the ?. that guards an absent element.
on_remove_unguarded(w, id) ==
  IF Has(w.area, id) THEN [w EXCEPT !.area = Replace(@, id, <<>>), !.threw = FALSE]
  ELSE [w EXCEPT !.threw = TRUE]

\* #on_remove(id).
on_remove(w, id) ==
  IF Has(w.area, id) THEN [w EXCEPT !.area = Replace(@, id, <<>>), !.threw = FALSE]
  ELSE [w EXCEPT !.threw = FALSE]

\* #on_edit(id, new_path).
on_edit(w, id, new_path) ==
  IF Has(w.area, id)
  THEN [w EXCEPT !.area = Replace(@, id, <<[getElementById(w.area, id) EXCEPT !.d = new_path]>>),
                 !.threw = FALSE]
  ELSE [w EXCEPT !.threw = FALSE]

\* The forEach of #group: each child the document holds is removed from the
\* drawing area and put into the new group.  removeChild throws for a child
\* that is not a child of the drawing area; the children moved before are
\* then in a group that is never appended.
RECURSIVE GroupChildren(_, _, _)
GroupChildren(area, children, children_id) ==
  IF children_id = <<>> THEN [area |-> area, children |-> children, threw |-> FALSE]
  ELSE LET id == Head(children_id)
       IN  IF ~Has(area, id) THEN GroupChildren(area, children, Tail(children_id))
           ELSE IF IsTopLevel(area, id)
                THEN GroupChildren(Without(area, FirstTop(area, id)),
                                   Append(children, getElementById(area, id)),
                                   Tail(children_id))
                ELSE [area |-> area, children |-> children, threw |-> TRUE]

\* #group(group_id, children_id).
group(w, group_id, children_id) ==
  LET moved == GroupChildren(w.area, <<>>, children_id)
  IN  IF moved.threw THEN [w EXCEPT !.area = moved.area, !.threw = TRUE]
      ELSE [w EXCEPT !.area = Append(moved.area, Group(group_id, moved.children)),
                     !.threw = FALSE]

\* #ungroup(group_id).  Without an element of that id the read of
\* group.children throws; for a group inside another group the children are
\* moved to the drawing area before removeChild throws.
ungroup(w, group_id) ==
  IF ~Has(w.area, group_id) THEN [w EXCEPT !.threw = TRUE]
  ELSE LET g == getElementById(w.area, group_id)
       IN  IF IsTopLevel(w.area, group_id)
           THEN [w EXCEPT !.area = Without(@, FirstTop(@, group_id)) \o g.children,
                          !.threw = FALSE]
           ELSE [w EXCEPT !.area = Replace(@, group_id, <<[g EXCEPT !.children = <<>>]>>)
                                     \o g.children,
                          !.threw = TRUE]

\* #new_id(): 'draw-' + #userid + '-' + #last_id.
new_id(w, userid) == <<userid, w.last_id>>

\* ------------------------------------------------------------------ the session

VARIABLES
  editors,     \* peer id -> the Editor of that peer (its user id, once connected)
  log,         \* the server's total order of the mutation events of a session of peers
  seen,        \* peer id -> how many events of log the peer has handled
  calls,       \* peer id -> how many public-method calls the peer has made
  remote,      \* how many events of other users were delivered to the peer
  mod_id,      \* the last mod_id the server assigned
  text_mod_id, \* the mod_id of the last add_region/remove_region of another user
  sequential,  \* peer id -> the snapshot with the peer's add/remove calls applied in order
  boards,      \* peer id -> the Whiteboard of that peer
  probe        \* the arguments and the results of the last geometry helper call

vars == <<editors, log, seen, calls, remote, mod_id, text_mod_id, sequential, boards, probe>>

\* The whiteboard's variables, which no handler and no method of an Editor touches.
apart == <<boards, probe>>

\* The peer under study and the other users of its document.
Me == 1
Others == {2}
\* The peers of a session in which every user is an Editor.
Peers == {1, 2}

\* The documents 'connected' delivers, and the inputs of the calls and events.
Snapshots == {<<>>, <<"a", "b">>}
LocalTexts == {<<"x">>}
RemoteTexts == {<<"y">>}
\* The toolbar's toggles (text.js): a flagless property and a flagged one.
Toggles == {<<"b", null>>, <<"p", "L">>}
Randoms == 0..(RandomScale - 1)

Editor(p) == editors[p]

InitPeers(peers, read_only) ==
  /\ editors = [p \in peers |-> NewEditor(read_only)]
  /\ log = <<>>
  /\ seen = [p \in peers |-> 0]
  /\ calls = [p \in peers |-> 0]
  /\ remote = 0
  /\ mod_id = 0
  /\ text_mod_id = 0
  /\ sequential = [p \in peers |-> <<>>]
  /\ boards = [p \in peers |-> NewWhiteboard]
  /\ probe = NoProbe

\* One Editor, constructed by init(read_only) of text.js.
Init == \E read_only \in BOOLEAN : InitPeers({Me}, read_only)

\* The server's 'connected' event: the peer's user id and the document.
ConnectedTo(p, content) ==
  /\ ~is_initialized(Editor(p))
  /\ log = <<>>
  /\ editors' = [editors EXCEPT ![p] = on_connected(@, p, content, mod_id)]
  /\ sequential' = [sequential EXCEPT ![p] = content]
  /\ UNCHANGED <<log, seen, calls, remote, mod_id, text_mod_id, apart>>

Connected(p) == \E content \in Snapshots : ConnectedTo(p, content)

\* A call of a public method: the peer's Editor becomes e1.
Call(p, e1, max) ==
  /\ calls[p] < max
  /\ editors' = [editors EXCEPT ![p] = e1]
  /\ calls' = [calls EXCEPT ![p] = @ + 1]
  /\ UNCHANGED <<log, seen, remote, mod_id, text_mod_id, apart>>

\* The inputs of the calls: positions of the live text.
AddInputs(e) ==
  {<<text, position>> \in LocalTexts \X (0..Len(e.content)) :
     Len(e.content) + Len(text) <= MaxLen}
RemoveInputs(e) ==
  {<<start, end>> \in (0..Len(e.content)) \X (0..Len(e.content)) : start <= end}
\* The toolbar handlers of text.js toggle a property over a non-empty selection.
ToggleInputs(e) ==
  {<<start, end, t>> \in (0..Len(e.content)) \X (0..Len(e.content)) \X Toggles :
     start < end}

\* The calls the handlers of text.js make; the keyboard and mouse handlers
\* return early while the editor is not initialized.
LocalAddOf(p, text, position, max) ==
  /\ is_initialized(Editor(p))
  /\ <<text, position>> \in AddInputs(Editor(p))
  /\ Call(p, add(Editor(p), text, position), max)
  /\ UNCHANGED sequential

LocalAdd(p, max) ==
  \E in \in AddInputs(Editor(p)) : LocalAddOf(p, in[1], in[2], max)

LocalRemove(p, max) ==
  /\ is_initialized(Editor(p))
  /\ \E in \in RemoveInputs(Editor(p)) : Call(p, remove(Editor(p), in[1], in[2]), max)
  /\ UNCHANGED sequential

LocalMoveCursor(p, max) ==
  /\ is_initialized(Editor(p))
  /\ \E position \in 0..Len(Editor(p).content) :
       Call(p, move_cursor(Editor(p), position), max)
  /\ UNCHANGED sequential

LocalToggleOf(p, start, end, property, flag, max) ==
  /\ is_initialized(Editor(p))
  /\ start \in 0..Len(Editor(p).content) /\ end \in 0..Len(Editor(p).content)
  /\ start < end
  /\ Call(p, toggle_property(Editor(p), start, end, property, flag), max)
  /\ UNCHANGED sequential

LocalToggle(p, max) ==
  \E in \in ToggleInputs(Editor(p)) :
    LocalToggleOf(p, in[1], in[2], in[3][1], in[3][2], max)

\* An event of another user, next in the server's order: its coordinates are
\* positions of the document the server holds, which is the peer's shadow.
DeliverWithin(p, e1, max) ==
  /\ is_initialized(Editor(p))
  /\ remote < max
  /\ editors' = [editors EXCEPT ![p] = e1]
  /\ remote' = remote + 1
  /\ mod_id' = mod_id + 1
  /\ UNCHANGED <<log, seen, calls, sequential, apart>>

Deliver(p, e1) == DeliverWithin(p, e1, MaxRemote)

\* The positions and the non-empty ranges of the document the server holds.
ServerPositions(p) == 0..Len(Editor(p).server_content)
ServerRanges(p) == {<<start, end>> \in ServerPositions(p) \X ServerPositions(p) : start < end}

RemoteAddRegionOf(p, text, position, u) ==
  /\ position \in ServerPositions(p)
  /\ Len(Editor(p).server_content) + Len(text) <= MaxLen
  /\ Deliver(p, on_add_region(Editor(p), text, position, u, mod_id + 1))
  /\ text_mod_id' = mod_id + 1

RemoteAddRegion(p) ==
  \E text \in RemoteTexts, position \in ServerPositions(p), u \in Others :
    RemoteAddRegionOf(p, text, position, u)

RemoteRemoveRegionOf(p, start, end, u, max) ==
  /\ <<start, end>> \in ServerRanges(p)
  /\ DeliverWithin(p, on_remove_region(Editor(p), start, end, u, mod_id + 1), max)
  /\ text_mod_id' = mod_id + 1

RemoteRemoveRegion(p) ==
  \E r \in ServerRanges(p), u \in Others : RemoteRemoveRegionOf(p, r[1], r[2], u, MaxRemote)

RemoteAddPropertyOf(p, start, end, property, flag, u, max) ==
  /\ <<start, end>> \in ServerRanges(p)
  /\ DeliverWithin(p, on_add_property(Editor(p), start, end, property, flag, u, mod_id + 1),
                   max)
  /\ UNCHANGED text_mod_id

RemoteAddProperty(p) ==
  \E r \in ServerRanges(p), t \in Toggles, u \in Others :
    RemoteAddPropertyOf(p, r[1], r[2], t[1], t[2], u, MaxRemote)

RemoteRemovePropertyOf(p, start, end, property, u, max) ==
  /\ <<start, end>> \in ServerRanges(p)
  /\ DeliverWithin(p, on_remove_property(Editor(p), start, end, property, u, mod_id + 1),
                   max)
  /\ UNCHANGED text_mod_id

RemoteRemoveProperty(p) ==
  \E r \in ServerRanges(p), t \in Toggles, u \in Others :
    RemoteRemovePropertyOf(p, r[1], r[2], t[1], u, MaxRemote)

RemoteCursorMoved(p) ==
  /\ \E position \in 0..Len(Editor(p).server_content), u \in Others, random \in Randoms :
       Deliver(p, on_cursor_moved(Editor(p), position, u, "user", mod_id + 1, random))
  /\ UNCHANGED text_mod_id

\* The handler the socket calls for `event` on the Editor e.
Handle(e, event, random) ==
  CASE event.type = "add_region" ->
         on_add_region(e, event.text, event.position, event.userid, event.mod_id)
    [] event.type = "remove_region" ->
         on_remove_region(e, event.start, event.end, event.userid, event.mod_id)
    [] event.type = "add_property" ->
         on_add_property(e, event.start, event.end, event.property, event.flag,
                         event.userid, event.mod_id)
    [] event.type = "remove_property" ->
         on_remove_property(e, event.start, event.end, event.property,
                            event.userid, event.mod_id)
    [] event.type = "cursor_moved" ->
         on_cursor_moved(e, event.position, event.userid, "user", event.mod_id, random)

\* The pending input of the kind of an emitted event.
InputType(event) ==
  CASE event.type = "add_region" -> "add"
    [] event.type = "remove_region" -> "remove"
    [] event.type = "cursor_moved" -> "cursor"
    [] OTHER -> event.type

\* The event the server broadcasts for the oldest event in flight from a
\* peer, with the payload the peer emitted.
BroadcastEmitted(e, userid, id) ==
  LET sent == Head(e.emitted)
  IN  CASE sent.type = "add_region" ->
             [type |-> sent.type, text |-> sent.text, position |-> sent.position,
              userid |-> userid, mod_id |-> id]
        [] sent.type = "cursor_moved" ->
             [type |-> sent.type, position |-> sent.position,
              userid |-> userid, mod_id |-> id]
        [] sent.type = "remove_region" ->
             [type |-> sent.type, start |-> sent.start, end |-> sent.end,
              userid |-> userid, mod_id |-> id]
        [] sent.type = "add_property" ->
             [type |-> sent.type, start |-> sent.start, end |-> sent.end,
              property |-> sent.property, flag |-> sent.flag,
              userid |-> userid, mod_id |-> id]
        [] sent.type = "remove_property" ->
             [type |-> sent.type, start |-> sent.start, end |-> sent.end,
              property |-> sent.property, userid |-> userid, mod_id |-> id]

\* The event the server broadcasts for the oldest event in flight from a
\* peer, with the coordinates its place in the server's order gives it: the
\* events ordered before it were all handled by the peer, whose queue head
\* holds the coordinates carried over them.
Broadcast(e, userid, id) ==
  LET sent == BroadcastEmitted(e, userid, id)
      head == IF e.builtup_inputs = <<>> THEN sent ELSE Head(e.builtup_inputs)
  IN  IF head.type # InputType(sent) THEN sent
      ELSE IF head.type \in {"add", "cursor"}
           THEN [sent EXCEPT !.position = head.position]
           ELSE [sent EXCEPT !.start = head.start, !.end = head.end]

\* The server receives the oldest event in flight and echoes it to its sender.
EchoOf(p, event) ==
  /\ editors' = [editors EXCEPT ![p] = Handle([@ EXCEPT !.emitted = Tail(@)], event, 0)]
  /\ mod_id' = mod_id + 1
  /\ UNCHANGED <<log, seen, calls, remote, text_mod_id, sequential, apart>>

Echo(p) ==
  /\ Editor(p).emitted # <<>>
  /\ Head(Editor(p).emitted).type # "update_last_mod_id"
  /\ EchoOf(p, Broadcast(Editor(p), Editor(p).userid, mod_id + 1))

EchoEmitted(p) ==
  /\ Editor(p).emitted # <<>>
  /\ Head(Editor(p).emitted).type # "update_last_mod_id"
  /\ EchoOf(p, BroadcastEmitted(Editor(p), Editor(p).userid, mod_id + 1))

Remotes(p) ==
  \/ RemoteAddRegion(p)
  \/ RemoteRemoveRegion(p)
  \/ RemoteAddProperty(p)
  \/ RemoteRemoveProperty(p)
  \/ RemoteCursorMoved(p)

Locals(p) ==
  \/ LocalAdd(p, MaxLocal)
  \/ LocalRemove(p, MaxLocal)
  \/ LocalMoveCursor(p, MaxLocal)
  \/ LocalToggle(p, MaxLocal)

\* One Editor in a session: its calls, the events of the other users and the
\* echoes of its own events.
Next ==
  \/ Connected(Me)
  \/ Locals(Me)
  \/ Remotes(Me)
  \/ Echo(Me)

Spec == Init /\ [][Next]_vars

\* The same session with a server that echoes the payload as it was emitted.
NextEmitted ==
  \/ Connected(Me)
  \/ Locals(Me)
  \/ Remotes(Me)
  \/ EchoEmitted(Me)

SpecEmitted == Init /\ [][NextEmitted]_vars

\* ------------------------------------------------------------------ calls before 'connected'

\* The public methods called while #userid is undefined: the paste and toolbar
\* handlers of text.js, and any caller of window.editor, do not ask
\* is_initialized() first.
EarlyAdd(p) ==
  /\ ~is_initialized(Editor(p))
  /\ \E in \in AddInputs(Editor(p)) : Call(p, add(Editor(p), in[1], in[2]), MaxLocal)
  /\ UNCHANGED sequential

EarlyRemove(p) ==
  /\ ~is_initialized(Editor(p))
  /\ \E in \in RemoveInputs(Editor(p)) : Call(p, remove(Editor(p), in[1], in[2]), MaxLocal)
  /\ UNCHANGED sequential

EarlyMoveCursor(p) ==
  /\ ~is_initialized(Editor(p))
  /\ \E position \in 0..Len(Editor(p).content) :
       Call(p, move_cursor(Editor(p), position), MaxLocal)
  /\ UNCHANGED sequential

EarlyToggle(p) ==
  /\ ~is_initialized(Editor(p))
  /\ \E in \in ToggleInputs(Editor(p)) :
       Call(p, toggle_property(Editor(p), in[1], in[2], in[3][1], in[3][2]), MaxLocal)
  /\ UNCHANGED sequential

NextEarly ==
  \/ Connected(Me)
  \/ Locals(Me)
  \/ Echo(Me)
  \/ EarlyAdd(Me)
  \/ EarlyRemove(Me)
  \/ EarlyMoveCursor(Me)
  \/ EarlyToggle(Me)

SpecEarly == Init /\ [][NextEarly]_vars

\* ------------------------------------------------------------------ round trip

\* The text with `text` inserted at the gap `position`.
Inserted(s, text, position) ==
  SubSeq(s, 1, position) \o text \o SubSeq(s, position + 1, Len(s))

\* The text without the code units of [start, end).
Removed(s, start, end) == SubSeq(s, 1, start) \o SubSeq(s, end + 1, Len(s))

InitRoundTrip == InitPeers({Me}, FALSE)

RoundTripAdd(p) ==
  /\ is_initialized(Editor(p))
  /\ \E in \in AddInputs(Editor(p)) :
       /\ Call(p, add(Editor(p), in[1], in[2]), MaxRoundTrip)
       /\ sequential' = [sequential EXCEPT ![p] = Inserted(@, in[1], in[2])]

RoundTripRemove(p) ==
  /\ is_initialized(Editor(p))
  /\ \E in \in RemoveInputs(Editor(p)) :
       /\ Call(p, remove(Editor(p), in[1], in[2]), MaxRoundTrip)
       /\ sequential' = [sequential EXCEPT ![p] = Removed(@, in[1], in[2])]

\* Calls of add and remove with no event of another user; the server echoes
\* each emitted event as it was emitted, in the order of emission.
NextRoundTrip ==
  \/ Connected(Me)
  \/ RoundTripAdd(Me)
  \/ RoundTripRemove(Me)
  \/ EchoEmitted(Me)

SpecRoundTrip == InitRoundTrip /\ [][NextRoundTrip]_vars

\* ------------------------------------------------------------------ a session of peers

\* The document every peer of the session receives with 'connected'.
Document == <<"a", "b">>

InitSession == InitPeers(Peers, FALSE)

Join(p) == ConnectedTo(p, Document)

\* The server takes the oldest event in flight from a peer that has handled
\* the whole order so far, and appends it to the order.
ServerAccept(p) ==
  /\ \A q \in Peers : is_initialized(Editor(q))
  /\ seen[p] = Len(log)
  /\ Editor(p).emitted # <<>>
  /\ Head(Editor(p).emitted).type # "update_last_mod_id"
  /\ log' = Append(log, Broadcast(Editor(p), Editor(p).userid, mod_id + 1))
  /\ editors' = [editors EXCEPT ![p].emitted = Tail(@)]
  /\ mod_id' = mod_id + 1
  /\ UNCHANGED <<seen, calls, remote, text_mod_id, sequential, apart>>

\* A peer handles the next event of the server's order.
PeerHandle(p) ==
  /\ seen[p] < Len(log)
  /\ \E random \in Randoms :
       editors' = [editors EXCEPT ![p] = Handle(@, log[seen[p] + 1], random)]
  /\ seen' = [seen EXCEPT ![p] = @ + 1]
  /\ UNCHANGED <<log, calls, remote, mod_id, text_mod_id, sequential, apart>>

NextSession ==
  \E p \in Peers :
    \/ Join(p)
    \/ LocalAdd(p, MaxPeerCalls)
    \/ LocalRemove(p, MaxPeerCalls)
    \/ LocalMoveCursor(p, MaxPeerCalls)
    \/ LocalToggle(p, MaxPeerCalls)
    \/ ServerAccept(p)
    \/ PeerHandle(p)

SpecSession == InitSession /\ [][NextSession]_vars

\* ------------------------------------------------------------------ properties

\* The ranges of one (property, flag) bucket, as a set.
RangeSet(ranges) == {ranges[i] : i \in 1..Len(ranges)}

\* Two property tables hold the same ranges under the same (property, flag)
\* pairs, whatever the order of the ranges in their lists.
SameTable(ps, qs) ==
  /\ DOMAIN ps = DOMAIN qs
  /\ \A n \in DOMAIN ps :
       /\ ps[n].flags = qs[n].flags
       /\ DOMAIN ps[n].ranges = DOMAIN qs[n].ranges
       /\ \A k \in DOMAIN ps[n].ranges :
            RangeSet(ps[n].ranges[k]) = RangeSet(qs[n].ranges[k])

\* The positions of a cursor table, per user id.
Positions(cs) == [u \in DOMAIN cs |-> cs[u].position]

\* The text with the add and remove inputs of a queue applied in queue order,
\* each as the editor applies it to a text.
RECURSIVE ApplyInputs(_, _)
ApplyInputs(s, inputs) ==
  IF inputs = <<>> THEN s
  ELSE LET input == Head(inputs)
           s1 == CASE input.type = "add" -> TextAdd(s, input.text, input.position)
                   [] input.type = "remove" -> TextRemove(s, input.start, input.end)
                   [] OTHER -> s
       IN  ApplyInputs(s1, Tail(inputs))

\* Every range of the table lies in a text of length n and is not empty.
RangesWithin(ps, n) ==
  \A name \in DOMAIN ps : \A k \in DOMAIN ps[name].ranges :
    \A i \in 1..Len(ps[name].ranges[k]) :
      LET r == ps[name].ranges[k][i] IN 0 <= r[1] /\ r[1] < r[2] /\ r[2] <= n

\* No two ranges of one (property, flag) bucket share a position.
RangesDisjoint(ps) ==
  \A name \in DOMAIN ps : \A k \in DOMAIN ps[name].ranges :
    \A i, j \in 1..Len(ps[name].ranges[k]) :
      i # j => LET r == ps[name].ranges[k][i]
                   q == ps[name].ranges[k][j]
               IN  ~(Max(r[1], q[1]) < Min(r[2], q[2]))

\* Some (property, flag) bucket of the table holds several ranges.
SomeBucketOfTwo(ps) ==
  \E name \in DOMAIN ps : \E k \in DOMAIN ps[name].ranges : Len(ps[name].ranges[k]) >= 2

\* The number of own events the server has echoed to the peer.
Echoes == mod_id - remote

\* C2: whenever the pending queue of a connected Editor is empty, content
\* equals server_content, properties equals server_properties and cursors
\* equals server_cursors.
C2_ShadowEqualsDrained ==
  LET e == Editor(Me)
  IN  (is_initialized(e) /\ e.builtup_inputs = <<>>) =>
        /\ e.content = e.server_content
        /\ SameTable(e.properties, e.server_properties)
        /\ e.cursors = e.server_cursors

C6_CursorBounds ==
  LET e == Editor(Me)
  IN  \A u \in DOMAIN e.cursors :
        0 <= e.cursors[u].position /\ e.cursors[u].position <= Len(e.content)

\* C7: every range of the live and of the shadow property table satisfies
\* 0 <= start < end <= length of the corresponding text.
C7_RangeBounds ==
  LET e == Editor(Me)
  IN  /\ RangesWithin(e.properties, Len(e.content))
      /\ RangesWithin(e.server_properties, Len(e.server_content))

\* C8: within one (property, flag) bucket of the live or the shadow property
\* table no two ranges overlap.
C8_PropertyDisjointness ==
  LET e == Editor(Me)
  IN  RangesDisjoint(e.properties) /\ RangesDisjoint(e.server_properties)

\* C8 witness: after calls and events a bucket of the live table holds two
\* ranges.
C8_Witness ==
  LET e == Editor(Me)
  IN  SomeBucketOfTwo(e.properties) /\ calls[Me] >= 1 /\ remote >= 1

\* C9: a read-only Editor has an empty pending queue and has emitted nothing
\* in every state, and a call of add, remove, move_cursor or toggle_property
\* on it changes nothing of the Editor.
C9_ReadOnlyNeverMutates ==
  /\ [](Editor(Me).read_only =>
          Editor(Me).builtup_inputs = <<>> /\ Editor(Me).emitted = <<>>)
  /\ [][(Editor(Me).read_only /\ calls' # calls) => editors' = editors]_vars

\* C9 witness: a connected read-only Editor with text and a remote cursor on
\* which public methods were called.
C9_Witness ==
  LET e == Editor(Me)
  IN  /\ e.read_only /\ is_initialized(e) /\ calls[Me] = MaxLocal
      /\ e.content # <<>> /\ DOMAIN e.cursors # {}

\* C10: while #userid is undefined, a call of add, remove, move_cursor or
\* toggle_property on an Editor that is not read-only leaves content,
\* properties, cursors and the pending queue unchanged and emits nothing.
C10_RejectedBeforeConnection ==
  [][(~is_initialized(Editor(Me)) /\ ~Editor(Me).read_only /\ calls' # calls) =>
       /\ Editor(Me).content' = Editor(Me).content
       /\ Editor(Me).properties' = Editor(Me).properties
       /\ Editor(Me).cursors' = Editor(Me).cursors
       /\ Editor(Me).builtup_inputs' = Editor(Me).builtup_inputs
       /\ Editor(Me).emitted' = Editor(Me).emitted]_vars

\* C4: after calls of add and remove with no event of another user, once the
\* server has echoed every emitted event in order, content and server_content
\* both are the snapshot with the calls applied one after the other.
C4_RoundTrip ==
  LET e == Editor(Me)
  IN  (is_initialized(e) /\ e.emitted = <<>>) =>
        e.content = sequential[Me] /\ e.server_content = sequential[Me]

\* C4 witness: every call of the round trip was made and echoed, and the text
\* differs from the snapshot.
C4_Witness ==
  LET e == Editor(Me)
  IN  /\ is_initialized(e) /\ e.emitted = <<>> /\ calls[Me] = MaxRoundTrip
      /\ Echoes >= MaxRoundTrip
      /\ Len(e.content) = 2 /\ e.content # <<"a", "b">>

\* The head of the queue has the kind of the event, and the payload the
\* assertion of the handler compares.
SameKind(input, event) == input.type = InputType(event)

SameCoordinates(input, event) ==
  IF input.type \in {"add", "cursor"} THEN input.position = event.position
  ELSE input.start = event.start /\ input.end = event.end

SameRest(input, event) ==
  CASE input.type = "add" -> input.text = event.text
    [] input.type = "add_property" ->
         input.property = event.property /\ input.flag = event.flag
    [] input.type = "remove_property" -> input.property = event.property
    [] OTHER -> TRUE

\* An echo of the oldest event in flight, as emitted, pops the head of the
\* queue, and the head has the kind of the event and its text, property and
\* flag; `coordinates` says when the head has the coordinates of the event too.
EchoPopsMatchingHead(coordinates) ==
  LET e     == Editor(Me)
      event == BroadcastEmitted(e, e.userid, mod_id + 1)
  IN  /\ e.builtup_inputs # <<>>
      /\ Editor(Me).builtup_inputs' = Tail(e.builtup_inputs)
      /\ SameKind(Head(e.builtup_inputs), event)
      /\ SameRest(Head(e.builtup_inputs), event)
      /\ coordinates => SameCoordinates(Head(e.builtup_inputs), event)

C1_ReplicaConvergence ==
  \A p, q \in Peers :
    LET a == Editor(p)
        b == Editor(q)
    IN  (/\ is_initialized(a) /\ is_initialized(b)
         /\ seen[p] = seen[q]
         /\ a.builtup_inputs = <<>> /\ b.builtup_inputs = <<>>) =>
          /\ a.content = b.content
          /\ SameTable(a.properties, b.properties)
          /\ \A u \in DOMAIN a.cursors \cap DOMAIN b.cursors :
               a.cursors[u].position = b.cursors[u].position

\* The position of the local user's cursor in a cursor table.
LocalPosition(e, cs) == cs[e.userid].position

\* Every input of a non-empty queue is an insertion.
OnlyAdds(inputs) ==
  inputs # <<>> /\ \A i \in 1..Len(inputs) : inputs[i].type = "add"

\* A position carried over the insertions of a queue, in queue order.
RECURSIVE ShiftOverAdds(_, _)
ShiftOverAdds(inputs, pos) ==
  IF inputs = <<>> THEN pos
  ELSE ShiftOverAdds(Tail(inputs),
                     AddShift(pos, Head(inputs).position, Len(Head(inputs).text)))

\* C12: when add_region(text, q) of another user arrives while the pending
\* queue holds insertions, the shadow text has text inserted at q, every
\* pending insertion at p is at p + |text| if q < p and at p otherwise, the
\* live text is the new shadow text with the rebased insertions applied in
\* order, and the local cursor is the shadow cursor carried over the remote
\* insertion and then over the rebased pending insertions.
C12_RemoteInsertAgainstPendingInsert ==
  [][\A text \in RemoteTexts, q \in 0..MaxLen, u \in Others :
       (RemoteAddRegionOf(Me, text, q, u) /\ OnlyAdds(Editor(Me).builtup_inputs)) =>
         LET e == editors[Me]
             f == editors'[Me]
         IN  /\ f.server_content = Inserted(e.server_content, text, q)
             /\ Len(f.builtup_inputs) = Len(e.builtup_inputs)
             /\ \A i \in 1..Len(e.builtup_inputs) :
                  f.builtup_inputs[i] =
                    [e.builtup_inputs[i] EXCEPT
                       !.position = IF q < @ THEN @ + Len(text) ELSE @]
             /\ f.content = ApplyInputs(f.server_content, f.builtup_inputs)
             /\ LocalPosition(f, f.server_cursors) =
                  AddShift(LocalPosition(e, e.server_cursors), q, Len(text))
             /\ LocalPosition(f, f.cursors) =
                  ShiftOverAdds(f.builtup_inputs, LocalPosition(f, f.server_cursors))]_vars

\* C12 witness: "ab" with the cursor at 2 and the pending insertion of "x" at
\* 1, after add_region("y", 0) of another user: shadow "yab", live "yaxb", the
\* pending insertion at 2 and the cursor at 4.
C12_Witness ==
  LET e == Editor(Me)
  IN  /\ is_initialized(e) /\ text_mod_id = mod_id /\ remote >= 1
      /\ e.server_content = <<"y", "a", "b">>
      /\ e.content = <<"y", "a", "x", "b">>
      /\ e.builtup_inputs = <<[type |-> "add", position |-> 2, text |-> <<"x">>]>>
      /\ LocalPosition(e, e.cursors) = 4

\* C13: when remove_region(s, e) of another user arrives and the pending queue
\* is empty, content and server_content both are the old content without
\* [s, e), and every cursor of the live and of the shadow table at p is at
\* p - (min(e, p) - s) if p > s and at p otherwise.
C13_RemoteDeleteEmptyQueue ==
  [][\A s \in 0..MaxLen, t \in 0..MaxLen, u \in Others :
       (RemoteRemoveRegionOf(Me, s, t, u, MaxRemote) /\ Editor(Me).builtup_inputs = <<>>) =>
         LET e == editors[Me]
             f == editors'[Me]
         IN  /\ f.content = Removed(e.content, s, t)
             /\ f.server_content = f.content
             /\ DOMAIN f.cursors = DOMAIN e.cursors
             /\ \A c \in DOMAIN e.cursors :
                  f.cursors[c].position = RemoveShift(e.cursors[c].position, s, t)
             /\ \A c \in DOMAIN e.server_cursors :
                  f.server_cursors[c].position =
                    RemoveShift(e.server_cursors[c].position, s, t)]_vars

\* The queue and the events in flight right after an insertion at the cursor
\* into an Editor with an empty queue: the insertion and the cursor move that
\* add() issues, both still to be echoed.
InsertAtCursorPending(e) ==
  /\ Len(e.builtup_inputs) = 2 /\ Len(e.emitted) = 2
  /\ e.builtup_inputs[1].type = "add" /\ e.emitted[1].type = "add_region"
  /\ e.builtup_inputs[2].type = "cursor" /\ e.emitted[2].type = "cursor_moved"
  /\ e.builtup_inputs[2].position =
       e.builtup_inputs[1].position + Len(e.builtup_inputs[1].text)

\* A call of add at the local cursor on a connected Editor with an empty queue.
InsertAtCursor(text, position) ==
  /\ LocalAddOf(Me, text, position, MaxLocal)
  /\ Editor(Me).builtup_inputs = <<>>
  /\ ~Editor(Me).read_only
  /\ position = LocalPosition(Editor(Me), Editor(Me).cursors)

\* C14: after an insertion at the local cursor into a connected Editor with an
\* empty queue the queue has exactly one entry; after the echo of the
\* add_region the queue is empty, content equals server_content and the
\* local cursor is at position + |text| in the live and in the shadow table.
C14_EchoDrainsQueue ==
  /\ [][\A text \in LocalTexts, position \in 0..MaxLen :
          InsertAtCursor(text, position) => Len(editors'[Me].builtup_inputs) = 1]_vars
  /\ [][(Echo(Me) /\ InsertAtCursorPending(Editor(Me))) =>
          LET e == editors[Me]
              f == editors'[Me]
          IN  /\ f.builtup_inputs = <<>>
              /\ f.content = f.server_content
              /\ LocalPosition(f, f.cursors) = e.builtup_inputs[2].position
              /\ LocalPosition(f, f.server_cursors) = e.builtup_inputs[2].position]_vars

\* C14, amended: the insertion at the cursor queues two entries, the
\* insertion and the cursor move to position + |text|.  The echo of the
\* add_region removes the insertion: the cursor move stays queued, content
\* equals server_content and the live cursor is at the queued position.  The
\* echo of the cursor_moved empties the queue and puts the shadow cursor at
\* that position too.
C14_EchoesDrainQueue ==
  /\ [][\A text \in LocalTexts, position \in 0..MaxLen :
          InsertAtCursor(text, position) =>
            /\ editors'[Me].builtup_inputs =
                 <<[type |-> "add", position |-> position, text |-> text],
                   [type |-> "cursor", position |-> position + Len(text)]>>
            /\ LocalPosition(editors'[Me], editors'[Me].cursors) = position + Len(text)]_vars
  /\ [][(Echo(Me) /\ InsertAtCursorPending(Editor(Me))) =>
          LET e == editors[Me]
              f == editors'[Me]
          IN  /\ f.builtup_inputs = <<e.builtup_inputs[2]>>
              /\ f.content = f.server_content
              /\ LocalPosition(f, f.cursors) = e.builtup_inputs[2].position]_vars
  /\ [][(/\ Echo(Me)
         /\ Len(Editor(Me).builtup_inputs) = 1 /\ Len(Editor(Me).emitted) = 1
         /\ Editor(Me).builtup_inputs[1].type = "cursor") =>
          LET e == editors[Me]
              f == editors'[Me]
          IN  /\ f.builtup_inputs = <<>>
              /\ f.content = f.server_content
              /\ LocalPosition(f, f.cursors) = e.builtup_inputs[1].position
              /\ LocalPosition(f, f.server_cursors) = e.builtup_inputs[1].position]_vars

\* C14 witness: "x" was inserted at the cursor of the empty document and both
\* echoes were handled: the queue is empty, both texts are "x" and the cursor
\* is at 1 in both tables.
C14_Witness ==
  LET e == Editor(Me)
  IN  /\ is_initialized(e) /\ calls[Me] = 1 /\ remote = 0 /\ Echoes = 2
      /\ e.builtup_inputs = <<>>
      /\ e.content = <<"x">> /\ e.server_content = <<"x">>
      /\ LocalPosition(e, e.cursors) = 1 /\ LocalPosition(e, e.server_cursors) = 1

\* Some range of the (property, flag) bucket of the table covers [start, end).
Covered(ps, start, end, property, flag) ==
  /\ property \in DOMAIN ps
  /\ LET key == IF ps[property].flags THEN flag ELSE Flagless
     IN  /\ key \in DOMAIN ps[property].ranges
         /\ \E i \in 1..Len(ps[property].ranges[key]) :
              /\ ps[property].ranges[key][i][1] <= start
              /\ ps[property].ranges[key][i][2] >= end

\* The last element of a non-empty sequence.
Last(q) == q[Len(q)]

\* A call of toggle_property queues, emits and applies to the live table the
\* kind `Covered` selects.
ToggleFollowsCover(start, end, property, flag) ==
  LET e == editors[Me]
      f == editors'[Me]
      covered == Covered(e.properties, start, end, property, flag)
      kind == IF covered THEN "remove_property" ELSE "add_property"
  IN  /\ Len(f.builtup_inputs) = Len(e.builtup_inputs) + 1
      /\ Last(f.builtup_inputs).type = kind
      /\ Len(f.emitted) = Len(e.emitted) + 1
      /\ Last(f.emitted).type = kind
      /\ f.properties = IF covered THEN RemoveProperty(e.properties, start, end, property)
                        ELSE AddProperty(e.properties, start, end, property, flag)

\* C15: toggle_property(start, end, property, flag) chooses remove_property
\* exactly when a range of the same (property, flag) of the live table covers
\* [start, end), and add_property otherwise; the chosen kind is queued,
\* emitted and applied to the live table.
C15_ToggleChoice ==
  [][\A start \in 0..Len(Editor(Me).content), end \in 0..Len(Editor(Me).content),
        t \in Toggles :
       (LocalToggleOf(Me, start, end, t[1], t[2], MaxLocal) /\ ~Editor(Me).read_only) =>
         ToggleFollowsCover(start, end, t[1], t[2])]_vars

\* ------------------------------------------------------------------ mismatching echoes

\* The events the server can send to a peer under the peer's own user id.
OwnEvents(p) ==
  LET own(event) == [event EXCEPT !.userid = Editor(p).userid, !.mod_id = mod_id + 1]
      blank == [userid |-> undefined, mod_id |-> 0]
  IN  {own([type |-> "add_region", text |-> text, position |-> position] @@ blank) :
         text \in {t \in LocalTexts : Len(Editor(p).server_content) + Len(t) <= MaxLen},
         position \in ServerPositions(p)}
      \cup {own([type |-> "remove_region", start |-> r[1], end |-> r[2]] @@ blank) :
              r \in ServerRanges(p)}
      \cup {own([type |-> "cursor_moved", position |-> position] @@ blank) :
              position \in ServerPositions(p)}
      \cup {own([type |-> "add_property", start |-> r[1], end |-> r[2],
                 property |-> t[1], flag |-> t[2]] @@ blank) :
              r \in ServerRanges(p), t \in Toggles}
      \cup {own([type |-> "remove_property", start |-> r[1], end |-> r[2],
                 property |-> t[1]] @@ blank) :
              r \in ServerRanges(p), t \in Toggles}

\* What the assertion of the echo branch tests: the head of the queue has the
\* kind and the payload of the event.
Matches(input, event) ==
  IF SameKind(input, event)
  THEN SameCoordinates(input, event) /\ SameRest(input, event)
  ELSE FALSE

\* An event under the peer's own user id that is not the echo of the head of
\* its queue (a lost or reordered event, or a stray one).
StrayEcho(p) ==
  /\ \E event \in OwnEvents(p) :
       /\ IF Editor(p).builtup_inputs = <<>> THEN TRUE
          ELSE ~Matches(Head(Editor(p).builtup_inputs), event)
       /\ Deliver(p, Handle(Editor(p), event, 0))
  /\ UNCHANGED text_mod_id

NextStray ==
  \/ Connected(Me)
  \/ Locals(Me)
  \/ Echo(Me)
  \/ StrayEcho(Me)

SpecStray == Init /\ [][NextStray]_vars

\* C11: an own-user event whose kind or payload differs from the head of the
\* pending queue, or that finds the queue empty, changes none of
\* server_content, server_properties, server_cursors, content, properties,
\* cursors and the pending queue.
C11_MismatchLeavesState ==
  [][StrayEcho(Me) =>
       LET e == editors[Me]
           f == editors'[Me]
       IN  /\ f.server_content = e.server_content
           /\ f.server_properties = e.server_properties
           /\ f.server_cursors = e.server_cursors
           /\ f.content = e.content
           /\ f.properties = e.properties
           /\ f.cursors = e.cursors
           /\ f.builtup_inputs = e.builtup_inputs]_vars

\* ------------------------------------------------------------------ property shapes

\* Calls and events that apply one property name with and without a flag.
ShapeToggles == {<<"p", "L">>, <<"p", null>>}
MaxShapeOps == 3

\* A call of toggle_property with either shape.
ShapeToggle(p) ==
  \E in \in (0..Len(Editor(p).content)) \X (0..Len(Editor(p).content)) \X ShapeToggles :
    LocalToggleOf(p, in[1], in[2], in[3][1], in[3][2], MaxShapeOps)

\* add_property and remove_property events of another user, with either shape.
RemoteShapeAdd(p) ==
  \E r \in ServerRanges(p), t \in ShapeToggles, u \in Others :
    RemoteAddPropertyOf(p, r[1], r[2], t[1], t[2], u, MaxShapeOps)

RemoteShapeRemove(p) ==
  \E r \in ServerRanges(p), t \in ShapeToggles, u \in Others :
    RemoteRemovePropertyOf(p, r[1], r[2], t[1], u, MaxShapeOps)

InitShapes == InitPeers({Me}, FALSE)

NextShapes ==
  \/ Connected(Me)
  \/ ShapeToggle(Me)
  \/ RemoteShapeAdd(Me)
  \/ RemoteShapeRemove(Me)
  \/ Echo(Me)

SpecShapes == InitShapes /\ [][NextShapes]_vars

\* Every entry of the table has one shape: a flagless entry holds its one list
\* of ranges, a flagged entry holds buckets keyed by flags only.
WellShaped(ps) ==
  \A name \in DOMAIN ps :
    IF ps[name].flags THEN Flagless \notin DOMAIN ps[name].ranges
    ELSE DOMAIN ps[name].ranges = {Flagless}

\* The names that have an entry in both tables have the same shape in both.
ShapeKept(ps, qs) ==
  \A name \in DOMAIN ps \cap DOMAIN qs : ps[name].flags = qs[name].flags

UserIds == {Me, 3}
MaxLifeCalls == 1

\* A 'connected' event, the first one or one after a reconnection: the user
\* id, the document and the mod_id the server holds.  The events still in
\* flight on the old connection are lost or are sent on the new one.
ConnectedAs(p, userid, content, lost) ==
  /\ editors' = [editors EXCEPT ![p] =
                   on_connected([@ EXCEPT !.emitted = IF lost THEN <<>> ELSE @],
                                userid, content, mod_id)]
  /\ sequential' = [sequential EXCEPT ![p] = content]
  /\ UNCHANGED <<log, seen, calls, remote, mod_id, text_mod_id, apart>>

Reconnected(p) ==
  \E userid \in UserIds, content \in Snapshots, lost \in BOOLEAN :
    ConnectedAs(p, userid, content, lost)

\* The 'ping' of the socket's manager.
Ping(p) ==
  /\ editors' = [editors EXCEPT ![p] = on_ping(@)]
  /\ UNCHANGED <<log, seen, calls, remote, mod_id, text_mod_id, sequential, apart>>

\* The server receives an update_last_mod_id; it sends nothing back.
ServerTakesUpdate(p) ==
  /\ Editor(p).emitted # <<>>
  /\ Head(Editor(p).emitted).type = "update_last_mod_id"
  /\ editors' = [editors EXCEPT ![p].emitted = Tail(@)]
  /\ UNCHANGED <<log, seen, calls, remote, mod_id, text_mod_id, sequential, apart>>

\* The 'user_disconnected' event for the user id userid.
UserDisconnectedOf(p, userid) ==
  /\ is_initialized(Editor(p))
  /\ editors' = [editors EXCEPT ![p] = on_user_disconnected(@, userid)]
  /\ UNCHANGED <<log, seen, calls, remote, mod_id, text_mod_id, sequential, apart>>

UserDisconnected(p) ==
  \E userid \in Others \cup {Editor(p).userid} : UserDisconnectedOf(p, userid)

LifeCalls(p) ==
  \/ LocalAdd(p, MaxLifeCalls)
  \/ LocalRemove(p, MaxLifeCalls)
  \/ LocalMoveCursor(p, MaxLifeCalls)
  \/ LocalToggle(p, MaxLifeCalls)

NextLifecycle ==
  \/ Reconnected(Me)
  \/ LifeCalls(Me)
  \/ RemoteCursorMoved(Me)
  \/ RemoteRemoveRegion(Me)
  \/ Echo(Me)
  \/ Ping(Me)
  \/ ServerTakesUpdate(Me)
  \/ UserDisconnected(Me)

SpecLifecycle == Init /\ [][NextLifecycle]_vars

\* The cursor 'connected' gives the local user.
LocalCursor == [position |-> 0, username |-> "Me", colour |-> "black"]

\* C17: after connected(userid, content, mod_id) the Editor has that user id,
\* content and server_content are the given content, last_mod_id is the
\* given mod_id and, unless read_only, both cursor tables hold the local
\* cursor at 0 with username 'Me' and colour 'black'.
C17_ConnectedInitialises ==
  [][\A userid \in UserIds, content \in Snapshots, lost \in BOOLEAN :
       ConnectedAs(Me, userid, content, lost) =>
         LET f == editors'[Me]
         IN  /\ f.userid = userid
             /\ f.content = content /\ f.server_content = content
             /\ f.last_mod_id = mod_id
             /\ ~f.read_only =>
                  /\ userid \in DOMAIN f.cursors /\ f.cursors[userid] = LocalCursor
                  /\ userid \in DOMAIN f.server_cursors
                  /\ f.server_cursors[userid] = LocalCursor]_vars

\* C17 witness: a 'connected' with the user id 3, the document "ab" and a
\* mod_id above 0 was handled after the Editor had moved its cursor.
C17_Witness ==
  LET e == Editor(Me)
  IN  /\ e.userid = 3 /\ ~e.read_only
      /\ calls[Me] = 1 /\ mod_id >= 1 /\ e.last_mod_id = mod_id
      /\ e.content = <<"a", "b">> /\ e.server_content = <<"a", "b">>
      /\ 3 \in DOMAIN e.cursors /\ e.cursors[3] = LocalCursor
      /\ 3 \in DOMAIN e.server_cursors /\ e.server_cursors[3] = LocalCursor
      /\ Me \in DOMAIN e.cursors

\* C18: a 'connected' that arrives while inputs are pending drops them: after
\* it the queue is empty and the live replica equals the shadow replica.
C18_ReconnectionDropsPending ==
  [][\A userid \in UserIds, content \in Snapshots, lost \in BOOLEAN :
       (ConnectedAs(Me, userid, content, lost) /\ Editor(Me).builtup_inputs # <<>>) =>
         LET f == editors'[Me]
         IN  /\ f.builtup_inputs = <<>>
             /\ f.content = f.server_content
             /\ f.cursors = f.server_cursors
             /\ SameTable(f.properties, f.server_properties)]_vars

C20_UserDisconnectedFrame ==
  [][\A userid \in Others \cup UserIds :
       UserDisconnectedOf(Me, userid) =>
         LET e == editors[Me]
             f == editors'[Me]
         IN  /\ DOMAIN f.cursors = DOMAIN e.cursors \ {userid}
             /\ DOMAIN f.server_cursors = DOMAIN e.server_cursors \ {userid}
             /\ \A c \in DOMAIN f.cursors : f.cursors[c] = e.cursors[c]
             /\ \A c \in DOMAIN f.server_cursors : f.server_cursors[c] = e.server_cursors[c]
             /\ f.content = e.content /\ f.server_content = e.server_content
             /\ f.properties = e.properties /\ f.server_properties = e.server_properties
             /\ f.builtup_inputs = e.builtup_inputs
             /\ f.userid = e.userid /\ f.last_mod_id = e.last_mod_id
             /\ f.last_mod_id_dirty = e.last_mod_id_dirty /\ f.emitted = e.emitted]_vars

\* C20 witness: the local user's cursor is gone from both tables of a
\* connected Editor that still holds the cursor of another user, its text and
\* its pending inputs.
C20_Witness ==
  LET e == Editor(Me)
  IN  /\ is_initialized(e) /\ ~e.read_only
      /\ e.userid \notin DOMAIN e.cursors /\ e.userid \notin DOMAIN e.server_cursors
      /\ Others \subseteq DOMAIN e.cursors /\ Others \subseteq DOMAIN e.server_cursors
      /\ e.builtup_inputs # <<>> /\ e.content # <<>>

\* ------------------------------------------------------------------ cursor colours

\* The other users of a document with more users than the palette has
\* colours.  The handler treats all user ids alike, so the users are first
\* seen in the order of their ids.
ColourUsers == 2..9
MaxColourEvents == 9

\* A cursor_moved event of another user of the crowded document.
ColourCursorMovedOf(p, position, u, random) ==
  /\ position \in ServerPositions(p)
  /\ \A v \in ColourUsers : v < u => v \in DOMAIN Editor(p).cursors
  /\ DeliverWithin(p, on_cursor_moved(Editor(p), position, u, "user", mod_id + 1, random),
                   MaxColourEvents)
  /\ UNCHANGED text_mod_id

ColourCursorMoved(p) ==
  \E position \in ServerPositions(p), u \in ColourUsers, random \in Randoms :
    ColourCursorMovedOf(p, position, u, random)

NextColours ==
  \/ ConnectedTo(Me, <<>>)
  \/ ColourCursorMoved(Me)

SpecColours == Init /\ [][NextColours]_vars

\* The palette as a set, and the palette colours the cursors of a table use.
Palette == {CURSOR_COLOURS[i] : i \in 1..Len(CURSOR_COLOURS)}
ColoursInUse(cs) == {cs[u].colour : u \in DOMAIN cs} \cap Palette

\* C21: the colour a remote user gets on its first cursor_moved is a palette
\* colour, one that no cursor of the live table has while fewer than seven
\* palette colours are in use; a user in the table keeps its colour.
C21_CursorColours ==
  /\ [][\A u \in ColourUsers, random \in Randoms :
          (/\ \E position \in 0..MaxLen : ColourCursorMovedOf(Me, position, u, random)
           /\ u \notin DOMAIN Editor(Me).cursors) =>
            LET cs == editors[Me].cursors
                colour == editors'[Me].cursors[u].colour
            IN  /\ colour \in Palette
                /\ Cardinality(ColoursInUse(cs)) < Len(CURSOR_COLOURS) =>
                     \A v \in DOMAIN cs : cs[v].colour # colour]_vars
  /\ [][\A u \in DOMAIN editors[Me].cursors \cap DOMAIN editors'[Me].cursors :
          editors'[Me].cursors[u].colour = editors[Me].cursors[u].colour]_vars

\* ------------------------------------------------------------------ the property primitives

\* A document long enough for a range with both ends inside another one.
RangeDocument == <<"a", "b", "c">>
MaxRangeOps == 2

\* A call of toggle_property with either shape.
RangeToggle(p) ==
  \E in \in (0..Len(Editor(p).content)) \X (0..Len(Editor(p).content)) \X ShapeToggles :
    LocalToggleOf(p, in[1], in[2], in[3][1], in[3][2], MaxRangeOps)

\* add_property and remove_property events of another user, with either shape.
RemoteRangeAdd(p) ==
  \E r \in ServerRanges(p), t \in ShapeToggles, u \in Others :
    RemoteAddPropertyOf(p, r[1], r[2], t[1], t[2], u, MaxRangeOps)

RemoteRangeRemove(p) ==
  \E r \in ServerRanges(p), t \in ShapeToggles, u \in Others :
    RemoteRemovePropertyOf(p, r[1], r[2], t[1], u, MaxRangeOps)

NextRanges ==
  \/ ConnectedTo(Me, RangeDocument)
  \/ RangeToggle(Me)
  \/ RemoteRangeAdd(Me)
  \/ RemoteRangeRemove(Me)
  \/ Echo(Me)

SpecRanges == InitShapes /\ [][NextRanges]_vars

\* The ranges of the bucket of (property, key) in the table; none without it.
Bucket(ps, property, key) ==
  IF property \in DOMAIN ps /\ key \in DOMAIN ps[property].ranges
  THEN ps[property].ranges[key] ELSE <<>>

\* The bucket an application with `flag` works on: the shape of the entry
\* decides whether the flag counts.
BucketKey(ps, property, flag) ==
  IF property \in DOMAIN ps /\ ~ps[property].flags THEN Flagless ELSE flag

\* Position pos lies inside a range of the bucket.
CoveredAt(ps, property, key, pos) ==
  \E i \in 1..Len(Bucket(ps, property, key)) :
    Bucket(ps, property, key)[i][1] <= pos /\ pos < Bucket(ps, property, key)[i][2]

\* The table holds the property and its (property, flag) bucket covers
\* every position of [start, end).
AddedTo(ps, start, end, property, flag) ==
  /\ property \in DOMAIN ps
  /\ \A pos \in start..(end - 1) :
       CoveredAt(ps, property, BucketKey(ps, property, flag), pos)

\* A call of toggle_property that takes the given branch ('add' or 'remove').
LocalToggleTaking(action, start, end, property, flag) ==
  /\ LocalToggleOf(Me, start, end, property, flag, MaxRangeOps)
  /\ ~Editor(Me).read_only
  /\ ToggleAction(Editor(Me).properties, start, end, property, flag) = action

\* C27: after #actual_add_property(start, end, property, flag) with
\* start < end the table has an entry for the property and every position of
\* [start, end) lies in a range of the (property, flag) bucket: on the shadow
\* table for an add_property event, on the live table for a toggle that adds.
C27_AddPropertyPostcondition ==
  /\ [][\A r \in (0..MaxLen) \X (0..MaxLen), t \in ShapeToggles, u \in Others :
          RemoteAddPropertyOf(Me, r[1], r[2], t[1], t[2], u, MaxRangeOps) =>
            AddedTo(editors'[Me].server_properties, r[1], r[2], t[1], t[2])]_vars
  /\ [][\A r \in (0..MaxLen) \X (0..MaxLen), t \in ShapeToggles :
          LocalToggleTaking("add", r[1], r[2], t[1], t[2]) =>
            AddedTo(editors'[Me].properties, r[1], r[2], t[1], t[2])]_vars

\* The bucket holds a range that ends at start or one that starts at end, each
\* a proper range, and after the application it holds the union of that
\* range with [start, end) and no range [start, end) of its own.
MergedInto(ps, qs, start, end, property, flag) ==
  LET key == BucketKey(ps, property, flag)
      old == Bucket(ps, property, key)
      new == Bucket(qs, property, key)
  IN  \A i \in 1..Len(old) :
        (old[i][1] < old[i][2] /\ (old[i][2] = start \/ old[i][1] = end)) =>
          /\ \E j \in 1..Len(new) :
               /\ new[j][1] <= Min(old[i][1], start)
               /\ new[j][2] >= Max(old[i][2], end)
          /\ \A j \in 1..Len(new) : new[j] # <<start, end>>

\* C28: when [start, end) is added to a bucket that holds a range R with
\* R.end = start, or with R.start = end, the bucket afterwards holds one range
\* that spans R and [start, end), and no separate range [start, end).
C28_ContiguousRangesMerge ==
  /\ [][\A r \in (0..MaxLen) \X (0..MaxLen), t \in ShapeToggles, u \in Others :
          RemoteAddPropertyOf(Me, r[1], r[2], t[1], t[2], u, MaxRangeOps) =>
            MergedInto(editors[Me].server_properties, editors'[Me].server_properties,
                       r[1], r[2], t[1], t[2])]_vars
  /\ [][\A r \in (0..MaxLen) \X (0..MaxLen), t \in ShapeToggles :
          LocalToggleTaking("add", r[1], r[2], t[1], t[2]) =>
            MergedInto(editors[Me].properties, editors'[Me].properties,
                       r[1], r[2], t[1], t[2])]_vars

\* Every range of the property has start < end.
ProperRanges(ps, property) ==
  property \in DOMAIN ps =>
    \A key \in DOMAIN ps[property].ranges :
      \A i \in 1..Len(ps[property].ranges[key]) :
        ps[property].ranges[key][i][1] < ps[property].ranges[key][i][2]

\* The keys of the buckets of the property in the table.
Keys(ps, property) == IF property \in DOMAIN ps THEN DOMAIN ps[property].ranges ELSE {}

\* qs is ps with [start, end) cleared of the property: no position of
\* [start, end) is covered under any flag, and every other position is
\* covered under a flag exactly when it was.
RemovedFrom(ps, qs, start, end, property) ==
  /\ Keys(qs, property) \subseteq Keys(ps, property)
  /\ \A key \in Keys(ps, property), pos \in 0..MaxLen :
       IF start <= pos /\ pos < end
       THEN ~CoveredAt(qs, property, key, pos)
       ELSE CoveredAt(qs, property, key, pos) <=> CoveredAt(ps, property, key, pos)

\* C29: after #actual_remove_property(start, end, property) on a table whose
\* ranges of the property are proper, no range of the property intersects
\* [start, end) and the cover of every position outside [start, end) is as
\* before: on the shadow table for a remove_property event, on the live table
\* for a toggle that removes.
C29_RemovePropertyPostcondition ==
  /\ [][\A r \in (0..MaxLen) \X (0..MaxLen), t \in ShapeToggles, u \in Others :
          (/\ RemoteRemovePropertyOf(Me, r[1], r[2], t[1], u, MaxRangeOps)
           /\ ProperRanges(Editor(Me).server_properties, t[1])) =>
            RemovedFrom(editors[Me].server_properties, editors'[Me].server_properties,
                        r[1], r[2], t[1])]_vars
  /\ [][\A r \in (0..MaxLen) \X (0..MaxLen), t \in ShapeToggles :
          (/\ LocalToggleTaking("remove", r[1], r[2], t[1], t[2])
           /\ ProperRanges(Editor(Me).properties, t[1])) =>
            RemovedFrom(editors[Me].properties, editors'[Me].properties,
                        r[1], r[2], t[1])]_vars

\* C29 witness: the shadow table held "p" with the flag "L" over [0, 3) and a
\* remove_property event cleared [1, 2): the positions 0 and 2 are covered,
\* position 1 is not.
C29_Witness ==
  LET e == Editor(Me)
  IN  /\ remote = 2 /\ calls[Me] = 0
      /\ Bucket(e.server_properties, "p", "L") = << <<0, 1>>, <<2, 3>> >>
      /\ Bucket(e.properties, "p", "L") = << <<0, 1>>, <<2, 3>> >>

\* No property entry without ranges, no flag bucket with an empty range list.
NoEmptyContainers(ps) ==
  \A property \in DOMAIN ps :
    /\ DOMAIN ps[property].ranges # {}
    /\ \A key \in DOMAIN ps[property].ranges : ps[property].ranges[key] # <<>>

\* C30: in every reachable state neither property table holds a property
\* without ranges or a flag bucket with an empty list of ranges.
C30_NoEmptyContainers ==
  /\ NoEmptyContainers(Editor(Me).properties)
  /\ NoEmptyContainers(Editor(Me).server_properties)

\* C30 witness: the Editor toggled "b" over [0, 1) and then removed [0, 1):
\* the only range of the live entry collapsed and the entry went with it.
C30_Witness ==
  LET e == Editor(Me)
  IN  /\ calls[Me] = 2 /\ remote = 0
      /\ Len(e.builtup_inputs) = 2
      /\ e.builtup_inputs[1] = [type |-> "add_property", start |-> 0, end |-> 1,
                                property |-> "b", flag |-> null]
      /\ e.builtup_inputs[2] = [type |-> "remove", start |-> 0, end |-> 1]
      /\ DOMAIN e.properties = {}

\* ------------------------------------------------------------------ a whiteboard session

MaxBoardCalls == 2
MaxD == 2

Board(p) == boards[p]

\* A tool action of the peer: its Whiteboard becomes w1, and the server puts
\* the events it emits into its order.
Tool(p, w1, events) ==
  /\ calls[p] < MaxBoardCalls
  /\ boards' = [boards EXCEPT ![p] = w1]
  /\ log' = log \o events
  /\ calls' = [calls EXCEPT ![p] = @ + 1]
  /\ UNCHANGED <<editors, seen, remote, mod_id, text_mod_id, sequential, probe>>

\* mouseup with the pen or the shape tool: the path gets its id and is emitted.
Draw(p) ==
  LET id == new_id(Board(p), p)
  IN  Tool(p, [Board(p) EXCEPT !.area = Append(@, Path(id, 0)), !.last_id = @ + 1,
                               !.threw = FALSE],
           <<[type |-> "draw", id |-> id, d |-> 0]>>)

\* mousemove with the eraser over one child of the drawing area.
Erase(p) ==
  \E i \in 1..Len(Board(p).area) :
    Tool(p, [Board(p) EXCEPT !.area = Without(@, i), !.threw = FALSE],
         <<[type |-> "remove", id |-> Board(p).area[i].id]>>)

\* recursive_move of the mousemove handler: every path of the element is
\* translated.
RECURSIVE Translate(_)
Translate(ele) ==
  IF ele.tag = "path" THEN [ele EXCEPT !.d = @ + 1]
  ELSE [ele EXCEPT !.children = [k \in 1..Len(ele.children) |-> Translate(ele.children[k])]]

\* recursive_move of the mouseup handler: an edit event for every path.
RECURSIVE Edits(_)
Edits(forest) ==
  IF forest = <<>> THEN <<>>
  ELSE (IF Head(forest).tag = "path"
        THEN <<[type |-> "edit", id |-> Head(forest).id, d |-> Head(forest).d]>>
        ELSE Edits(Head(forest).children))
       \o Edits(Tail(forest))

\* The largest d of the paths of the forest.
RECURSIVE MaxOfD(_)
MaxOfD(forest) ==
  IF forest = <<>> THEN 0
  ELSE Max(IF Head(forest).tag = "path" THEN Head(forest).d
           ELSE MaxOfD(Head(forest).children),
           MaxOfD(Tail(forest)))

\* The selector drags one child of the drawing area and releases it.
Move(p) ==
  \E i \in 1..Len(Board(p).area) :
    /\ MaxOfD(<<Board(p).area[i]>>) < MaxD
    /\ Tool(p, [Board(p) EXCEPT !.area[i] = Translate(@), !.threw = FALSE],
            Edits(<<Translate(Board(p).area[i])>>))

\* The group button with two children of the drawing area selected.
GroupSelected(p) ==
  \E i \in 1..Len(Board(p).area), j \in 1..Len(Board(p).area) :
    /\ i < j
    /\ LET children_id == <<Board(p).area[i].id, Board(p).area[j].id>>
           id == new_id(Board(p), p)
       IN  Tool(p, group([Board(p) EXCEPT !.last_id = @ + 1], id, children_id),
                <<[type |-> "group", id |-> id, children |-> children_id]>>)

\* The group button with one group selected.
UngroupSelected(p) ==
  \E i \in 1..Len(Board(p).area) :
    /\ Board(p).area[i].tag = "g"
    /\ Tool(p, ungroup(Board(p), Board(p).area[i].id),
            <<[type |-> "ungroup", id |-> Board(p).area[i].id]>>)

\* The handler the socket calls for the event on the Whiteboard w.
BoardHandler(w, event) ==
  CASE event.type = "draw" -> on_draw(w, event.id, event.d)
    [] event.type = "remove" -> on_remove(w, event.id)
    [] event.type = "edit" -> on_edit(w, event.id, event.d)
    [] event.type = "group" -> group(w, event.id, event.children)
    [] event.type = "ungroup" -> ungroup(w, event.id)

\* The next event of the server's order the peer has not handled yet.
NextEvent(p) == log[seen[p] + 1]

\* A peer handles the next event of the server's order; the server delivers
\* every event to every peer.
BoardHandle(p) ==
  /\ seen[p] < Len(log)
  /\ boards' = [boards EXCEPT ![p] = BoardHandler(@, NextEvent(p))]
  /\ seen' = [seen EXCEPT ![p] = @ + 1]
  /\ UNCHANGED <<editors, log, calls, remote, mod_id, text_mod_id, sequential, probe>>

InitBoards == InitPeers(Peers, FALSE)

NextBoards ==
  \E p \in Peers :
    \/ Draw(p)
    \/ Erase(p)
    \/ Move(p)
    \/ GroupSelected(p)
    \/ UngroupSelected(p)
    \/ BoardHandle(p)

SpecBoards == InitBoards /\ [][NextBoards]_vars

\* How many elements of the forest, at any depth, have the id.
RECURSIVE Count(_, _)
Count(forest, id) ==
  IF forest = <<>> THEN 0
  ELSE (IF Head(forest).id = id THEN 1 ELSE 0)
       + Count(Head(forest).children, id) + Count(Tail(forest), id)

\* The scene graph without the order of the children: every element with its
\* tag, its d if it is a path, and the id of its parent.
RECURSIVE Scene(_, _)
Scene(forest, parent) ==
  UNION {{[id |-> forest[i].id, tag |-> forest[i].tag,
           d |-> IF forest[i].tag = "path" THEN forest[i].d ELSE 0,
           parent |-> parent]}
         \cup Scene(forest[i].children, forest[i].id) : i \in 1..Len(forest)}

\* The peer is about to handle an event of one of the given types.
Handles(p, types) == BoardHandle(p) /\ NextEvent(p).type \in types

\* C22: a draw event for an id that an element has leaves the drawing area as
\* it is; handling a draw twice gives what handling it once gives, with one
\* element of that id.
C22_DrawIdempotent ==
  /\ [][\A p \in Peers :
          (Handles(p, {"draw"}) /\ Has(Board(p).area, NextEvent(p).id)) =>
            boards'[p].area = boards[p].area]_vars
  /\ [](\A p \in Peers, i \in 1..Len(log) :
          log[i].type = "draw" =>
            LET once == on_draw(Board(p), log[i].id, log[i].d)
            IN  /\ on_draw(once, log[i].id, log[i].d) = once
                /\ Count(once.area, log[i].id) = 1)

\* C22 witness: a peer drew a path, handled the event of its own draw, and
\* holds the path once.
C22_Witness ==
  \E p \in Peers :
    /\ seen[p] >= 1
    /\ log[seen[p]].type = "draw" /\ log[seen[p]].id[1] = p
    /\ Count(Board(p).area, log[seen[p]].id) = 1

\* C23: a remove or an edit event for an id no element has leaves the drawing
\* area as it is and throws nothing.
C23_AbsentIdIgnored ==
  [][\A p \in Peers :
       (Handles(p, {"remove", "edit"}) /\ ~Has(Board(p).area, NextEvent(p).id)) =>
         boards'[p].area = boards[p].area /\ ~boards'[p].threw]_vars

\* C23 witness: a peer has handled, without an error, an edit event and then a
\* remove event for a path that an earlier remove event had taken away.
C23_Witness ==
  \E p \in Peers, i \in 1..Len(log), k \in 1..Len(log) :
    /\ i < k /\ k < seen[p]
    /\ log[i].type = "remove"
    /\ log[k].type = "edit" /\ log[k].id = log[i].id
    /\ log[seen[p]].type = "remove" /\ log[seen[p]].id = log[i].id
    /\ ~Has(Board(p).area, log[i].id)
    /\ ~Board(p).threw

\* C24: a group event for a group that is already formed, and an ungroup event
\* for a group that is already dissolved, complete without an error and leave
\* the drawing area as it is.
C24_GroupIdempotent ==
  /\ [][\A p \in Peers :
          (Handles(p, {"group"}) /\ Has(Board(p).area, NextEvent(p).id)) =>
            boards'[p].area = boards[p].area /\ ~boards'[p].threw]_vars
  /\ [][\A p \in Peers :
          (Handles(p, {"ungroup"}) /\ ~Has(Board(p).area, NextEvent(p).id)) =>
            boards'[p].area = boards[p].area /\ ~boards'[p].threw]_vars

\* C25: once every peer has handled every event of the server's order, all
\* peers hold the same scene graph.
C25_BoardConvergence ==
  (\A p \in Peers : seen[p] = Len(log)) =>
    \A p \in Peers, q \in Peers : Scene(Board(p).area, <<>>) = Scene(Board(q).area, <<>>)

\* ------------------------------------------------------------------ geometry

\* The points of the grid the segments are drawn on.
GridMax == 2
Points == (0..GridMax) \X (0..GridMax)

\* Two segments on the grid, linesIntersect not yet called for them.
InitGeometry ==
  /\ editors = [p \in {Me} |-> NewEditor(FALSE)]
  /\ log = <<>>
  /\ seen = [p \in {Me} |-> 0]
  /\ calls = [p \in {Me} |-> 0]
  /\ remote = 0
  /\ mod_id = 0
  /\ text_mod_id = 0
  /\ sequential = [p \in {Me} |-> <<>>]
  /\ boards = [p \in {Me} |-> NewWhiteboard]
  /\ probe \in [called : {FALSE}, a1 : Points, a2 : Points, b1 : Points, b2 : Points,
                result : {FALSE}]

\* A call of linesIntersect, as the eraser makes it for its stroke and a
\* segment of a path.
Intersect ==
  /\ ~probe.called
  /\ probe' = [probe EXCEPT !.called = TRUE,
                            !.result = linesIntersect(probe.a1, probe.a2, probe.b1, probe.b2)]
  /\ UNCHANGED <<editors, log, seen, calls, remote, mod_id, text_mod_id, sequential, boards>>

SpecGeometry == InitGeometry /\ [][Intersect]_vars

\* The directions of the two segments are parallel (or one segment is a point).
Parallel(a1, a2, b1, b2) ==
  (a2[1] - a1[1]) * (b2[2] - b1[2]) = (a2[2] - a1[2]) * (b2[1] - b1[1])

\* C26: linesIntersect gives the same for the two segments exchanged and for
\* both segments reversed, and FALSE for parallel and colinear segments.
C26_GeometrySymmetry ==
  probe.called =>
    /\ probe.result = linesIntersect(probe.b1, probe.b2, probe.a1, probe.a2)
    /\ probe.result = linesIntersect(probe.a2, probe.a1, probe.b2, probe.b1)
    /\ Parallel(probe.a1, probe.a2, probe.b1, probe.b2) => ~probe.result

\* C26 witness: two segments that cross in an end point of one of them.
C26_Witness ==
  /\ probe.called /\ probe.result
  /\ probe.a1 = <<0, 0>> /\ probe.a2 = <<2, 2>>
  /\ probe.b1 = <<2, 2>> /\ probe.b2 = <<2, 0>>

\* ------------------------------------------------------------------ the shadow cursor table

\* The 'cursor_moved' event of another user with the given payload.
RemoteCursorMovedOf(p, position, u, random) ==
  /\ position \in 0..Len(Editor(p).server_content)
  /\ Deliver(p, on_cursor_moved(Editor(p), position, u, "user", mod_id + 1, random))
  /\ UNCHANGED text_mod_id

\* C31: after a cursor_moved event of another user the shadow cursor of that
\* user is at the position the event carries, whatever the queue holds.
C31_ShadowCursorConfirmed ==
  [][\A position \in 0..MaxLen, u \in Others, random \in Randoms :
       RemoteCursorMovedOf(Me, position, u, random) =>
         editors'[Me].server_cursors[u].position = position]_vars

\* ------------------------------------------------------------------ remote property events

\* The property table with the add_property and remove_property inputs of a
\* queue applied in queue order.
RECURSIVE ApplyPropertyInputs(_, _)
ApplyPropertyInputs(ps, inputs) ==
  IF inputs = <<>> THEN ps
  ELSE LET input == Head(inputs)
           ps1 == CASE input.type = "add_property" ->
                         AddProperty(ps, input.start, input.end, input.property, input.flag)
                    [] input.type = "remove_property" ->
                         RemoveProperty(ps, input.start, input.end, input.property)
                    [] OTHER -> ps
       IN  ApplyPropertyInputs(ps1, Tail(inputs))

\* C32: an add_property or remove_property event of another user leaves both
\* texts, both cursor tables and the queue as they are, and the live property
\* table is the new shadow table with the pending property inputs applied in
\* queue order.
C32_RemotePropertyFrame ==
  [][(/\ remote' = remote + 1 /\ text_mod_id' = text_mod_id
      /\ RemoteAddProperty(Me) \/ RemoteRemoveProperty(Me)) =>
       /\ editors'[Me].content = editors[Me].content
       /\ editors'[Me].server_content = editors[Me].server_content
       /\ editors'[Me].cursors = editors[Me].cursors
       /\ editors'[Me].server_cursors = editors[Me].server_cursors
       /\ editors'[Me].builtup_inputs = editors[Me].builtup_inputs
       /\ editors'[Me].properties =
            ApplyPropertyInputs(editors'[Me].server_properties,
                                editors'[Me].builtup_inputs)]_vars

\* C32 witness: the one event handled so far is an add_property of another
\* user, a toggle and an insertion are pending, and the live table is the
\* shadow table with the pending toggle on top.
C32_Witness ==
  /\ remote = 1 /\ mod_id = 1 /\ calls[Me] = 2
  /\ Editor(Me).server_properties # <<>>
  /\ \E i \in 1..Len(Editor(Me).builtup_inputs) :
       Editor(Me).builtup_inputs[i].type = "add_property"
  /\ \E i \in 1..Len(Editor(Me).builtup_inputs) :
       Editor(Me).builtup_inputs[i].type = "add"
  /\ Editor(Me).properties # Editor(Me).server_properties
  /\ Editor(Me).properties =
       ApplyPropertyInputs(Editor(Me).server_properties, Editor(Me).builtup_inputs)

\* ------------------------------------------------------------------ rebase under a remote insert

\* The pending input `after` is the pending input `before` carried over an
\* insertion of n code units at q: a range [a, b) has a moved if q < a and b
\* moved if q <= b, a position p is moved if q < p, and nothing else differs.
CarriedOverInsert(before, after, q, n) ==
  IF before.type \in {"remove", "add_property", "remove_property"}
  THEN /\ after = [before EXCEPT !.start = after.start, !.end = after.end]
       /\ after.start = (IF q < before.start THEN before.start + n ELSE before.start)
       /\ after.end = (IF q <= before.end THEN before.end + n ELSE before.end)
       /\ after.start <= after.end
  ELSE /\ after = [before EXCEPT !.position = after.position]
       /\ after.position = (IF q < before.position THEN before.position + n
                           ELSE before.position)

\* C33: an add_region event of another user carries every pending input over
\* the insertion, and no range gets its start behind its end.
C33_RebaseUnderInsert ==
  [][\A text \in RemoteTexts, q \in 0..MaxLen, u \in Others :
       (text_mod_id' = mod_id + 1 /\ RemoteAddRegionOf(Me, text, q, u)) =>
         /\ Len(editors'[Me].builtup_inputs) = Len(editors[Me].builtup_inputs)
         /\ \A i \in 1..Len(editors[Me].builtup_inputs) :
              CarriedOverInsert(editors[Me].builtup_inputs[i],
                                editors'[Me].builtup_inputs[i], q, Len(text))]_vars

\* C33 witness: the one event handled so far is an insertion of another user
\* at the end of a pending removal, whose end moved while its start stayed.
C33_Witness ==
  /\ remote = 1 /\ mod_id = 1
  /\ Len(Editor(Me).builtup_inputs) = 1 /\ Len(Editor(Me).emitted) = 1
  /\ Editor(Me).builtup_inputs[1].type = "remove"
  /\ Editor(Me).emitted[1].type = "remove_region"
  /\ Editor(Me).emitted[1].start < Editor(Me).emitted[1].end
  /\ Editor(Me).builtup_inputs[1].start = Editor(Me).emitted[1].start
  /\ Editor(Me).builtup_inputs[1].end = Editor(Me).emitted[1].end + 1

\* ------------------------------------------------------------------ the echo of an own event

\* C34: the echo of an event of the local user leaves the live text, the live
\* property table and the live cursor table as they are.
C34_EchoLeavesLive ==
  [][Echo(Me) =>
       /\ editors'[Me].content = editors[Me].content
       /\ editors'[Me].properties = editors[Me].properties
       /\ editors'[Me].cursors = editors[Me].cursors]_vars

\* C34 witness: the echo of an own insertion has reached the shadow text while
\* a later input is still pending and the live text is ahead of the shadow.
C34_Witness ==
  /\ remote = 0 /\ mod_id >= 1
  /\ \E i \in 1..Len(Editor(Me).server_content) : Editor(Me).server_content[i] = "x"
  /\ Editor(Me).builtup_inputs # <<>>
  /\ Editor(Me).content # Editor(Me).server_content

\* ------------------------------------------------------------------ rendered markup

\* The tags follow a LIFO discipline from the given stack of open tags on:
\* every close tag closes the tag opened last and not yet closed, which is of
\* its property, and no tag stays open.
RECURSIVE Nested(_, _)
Nested(tags, open) ==
  IF tags = <<>> THEN open = <<>>
  ELSE IF Head(tags).tag = "open"
       THEN Nested(Tail(tags), Append(open, Head(tags).name))
       ELSE IF open = <<>> THEN FALSE
            ELSE IF open[Len(open)] # Head(tags).name THEN FALSE
                 ELSE Nested(Tail(tags), SubSeq(open, 1, Len(open) - 1))

\* C35: in every reachable state the markup #render writes for the live text
\* and the live property table is well nested.
C35_MarkupWellNested ==
  \A order \in MapOrders(Editor(Me).properties) :
    Nested(render(Editor(Me).properties, order, Len(Editor(Me).content)), <<>>)

\* ------------------------------------------------------------------ the replay of the queue

\* The precondition of a pending input against a text of n code units.
Inside(input, n) ==
  IF input.type \in {"add", "cursor"}
  THEN 0 <= input.position /\ input.position <= n
  ELSE 0 <= input.start /\ input.start <= input.end /\ input.end <= n

\* The loop of Replay from input i on, with the precondition of each rebased
\* input tested against the live text at the moment the input is re-applied.
RECURSIVE ReplayInside(_, _, _)
ReplayInside(e, i, event) ==
  IF i > Len(e.builtup_inputs) THEN TRUE
  ELSE LET input == IF event.type = "remove"
                    THEN RebaseOnRemove(e.builtup_inputs[i], event.start, event.end)
                    ELSE RebaseOnAdd(e.builtup_inputs[i], event.position, Len(event.text))
           r     == Reapply([e EXCEPT !.builtup_inputs[i] = input], input)
       IN  /\ Inside(input, Len(e.content))
           /\ r.ok => ReplayInside(r.e, i + 1, event)

\* C36: when an add_region or remove_region event of another user makes the
\* editor replay its queue, every rebased input satisfies its precondition
\* against the live text it is re-applied to.
C36_ReplayInsideText ==
  /\ [][\A text \in RemoteTexts, q \in 0..MaxLen, u \in Others :
          (text_mod_id' = mod_id + 1 /\ RemoteAddRegionOf(Me, text, q, u)) =>
            ReplayInside(ResetLive(actual_add(Editor(Me), text, q, TRUE)), 1,
                         [type |-> "add", text |-> text, position |-> q])]_vars
  /\ [][\A start \in 0..MaxLen, end \in 0..MaxLen, u \in Others :
          (text_mod_id' = mod_id + 1
           /\ RemoteRemoveRegionOf(Me, start, end, u, MaxRemote)) =>
            ReplayInside(ResetLive(actual_remove(Editor(Me), start, end, TRUE)), 1,
                         [type |-> "remove", start |-> start, end |-> end])]_vars

\* ------------------------------------------------------------------ toggling twice

\* The positions the (property, key) bucket of the table covers.
CoveredPositions(ps, property, key) ==
  {pos \in 0..MaxLen : CoveredAt(ps, property, key, pos)}

\* The flag of the call fits the shape of the entry of the property, as
\* toggle_property asserts.
FitsShape(ps, property, flag) ==
  property \in DOMAIN ps => (ps[property].flags <=> flag # null)

\* C37: two calls of toggle_property(start, end, property, flag) in a row, with
\* 0 <= start < end <= |content|, leave every (property, flag) bucket of the
\* live table covering the positions it covered before the first call.
C37_ToggleTwiceRestores ==
  LET e == Editor(Me)
  IN  is_initialized(e) =>
        \A start \in 0..Len(e.content), end \in 0..Len(e.content), t \in ShapeToggles :
          (start < end /\ FitsShape(e.properties, t[1], t[2])) =>
            LET twice == toggle_property(toggle_property(e, start, end, t[1], t[2]),
                                         start, end, t[1], t[2])
            IN  \A key \in {Flagless, "L"} :
                  CoveredPositions(twice.properties, t[1], key)
                    = CoveredPositions(e.properties, t[1], key)

\* ------------------------------------------------------------------ the Backspace and Delete keys

MaxKeys == 3

\* get position(): 0 for a read-only editor, else the live cursor of the
\* local user.
position(e) == IF e.read_only THEN 0 ELSE e.cursors[e.userid].position

\* The keydown handler for Backspace without a selection and without Ctrl:
\* nothing is called with the cursor at 0.
KeyBackspace(p) ==
  /\ is_initialized(Editor(p))
  /\ Call(p, IF position(Editor(p)) # 0
             THEN remove(Editor(p), position(Editor(p)) - 1, position(Editor(p)))
             ELSE Editor(p),
          MaxKeys)
  /\ UNCHANGED sequential

\* The keydown handler for Delete without a selection and without Ctrl.
KeyDelete(p) ==
  /\ is_initialized(Editor(p))
  /\ Call(p, remove(Editor(p), position(Editor(p)), position(Editor(p)) + 1), MaxKeys)
  /\ UNCHANGED sequential

\* An editor at the keyboard: typing, clicking, Backspace and Delete.
NextKeys ==
  \/ Connected(Me)
  \/ LocalAdd(Me, MaxKeys)
  \/ LocalMoveCursor(Me, MaxKeys)
  \/ KeyBackspace(Me)
  \/ KeyDelete(Me)

SpecKeys == Init /\ [][NextKeys]_vars

\* C38: every remove the Backspace and Delete handlers issue lies inside the
\* live text at the time of the call, so every input they queue and every
\* remove_region they emit does.
C38_KeyboardRemovals ==
  [][(KeyBackspace(Me) \/ KeyDelete(Me)) =>
       /\ \A i \in (Len(editors[Me].builtup_inputs) + 1)..Len(editors'[Me].builtup_inputs) :
            Inside(editors'[Me].builtup_inputs[i], Len(editors[Me].content))
       /\ \A i \in (Len(editors[Me].emitted) + 1)..Len(editors'[Me].emitted) :
            Inside(editors'[Me].emitted[i], Len(editors[Me].content))]_vars

============================================================================
